---- MODULE Spec2Model ----
(***************************************************************************)
(* A model of the porikkhok scraper: the bookmarklet injector (runScrape,  *)
(* findLocalPort), the standalone puppeteer scraper (scrape) and the       *)
(* save-questions endpoint.                                                *)
(*                                                                         *)
(* Three specifications share the variables:                               *)
(*   SpecLocator  the question block locator and block extractor, run on   *)
(*                a page drawn from a family of DOM trees;                 *)
(*   Spec         answer reconciliation, image download and the build of   *)
(*                the emitted records, run on extracted records;           *)
(*   SpecSave     the emitter: port probing, the POST and the download     *)
(*                fallback.                                                *)
(* Text is a sequence of one-character strings; "ka", "kha", "ga", "gha"   *)
(* stand for the four Bengali option letters and "|" for the danda.        *)
(***************************************************************************)
EXTENDS Integers, Sequences, FiniteSets, TLC

VARIABLES
    variant,        \* "inject" (bookmarklet) or "cli" (puppeteer scraper)
    pc,             \* position of the run
    dom,            \* the rendered page: a sequence of element nodes in document order
    qi,             \* loop index over kaButtons / questionBlocks
    located,        \* per pushed record: the first-option button, grid and container it came from
    questionBlocks, \* cli: the containers found by the locator loop
    rawQuestions,   \* the extracted records (rawQuestions / results / questions)
    domQuestions,   \* history: the records as the extractor left them
    apiQuestions,   \* injector: the answer-key list, [kind, items]
    apiState,       \* history: "none", "failed" or "ok", how the answer-key fetch ended
    di, dj,         \* image loop indices (question, image), 1-based
    images,         \* injector: the asset bundle, local filename -> data URL
    imageCounter,   \* cli: the running image number
    downloadedImages, \* cli: the files written
    named,          \* history: <<question, image, filename>> for every name generated
    jsonOut,        \* the emitted records (jsonOut / jsonData)
    log,            \* the log lines, oldest first
    portIdx,        \* findLocalPort: index of the next port to probe
    probes,         \* history: the probes made, [port, threw, status]
    port,           \* the port findLocalPort returned, 0 before it returns
    postResult,     \* history: how the POST ended, "none" before it ends
    saved,          \* the saved flag
    downloaded,     \* whether the browser download was triggered
    requests,       \* history: the network requests, an entry when one is issued and when it settles
    rawText,        \* the text handed to the question-text normalization
    passes,         \* history: the result of each successive normalization of rawText
    TEACHER_PIN,    \* admin page: the configured PIN, "" when none is configured
    sessionUnlock,  \* admin page: sessionStorage['teacher_admin_unlock'], Null when absent
    mounted,        \* admin page: whether the component is mounted
    pinInput,       \* admin page: the PIN field
    apiKeyInput,    \* admin page: the API key field
    adminApiKey,    \* admin page: the key handed to setAdminApiKey, Null before
    pinUnlocked,    \* admin page: the pinUnlocked state
    error,          \* admin page: the load error, Null when there is none
    pressed,        \* admin page, history: the last thing that happened to the page
    dlChain,        \* downloadFile: the responses the servers give, hop by hop
    dlHop,          \* downloadFile: the hop the current (nested) call is at
    dlFile,         \* downloadFile: what destPath names on disk
    dlStream,       \* downloadFile: the current call's write stream
    dlUnlink,       \* downloadFile: whether an fs.unlink(destPath) is queued
    dlResult,       \* downloadFile: how the returned promise stands
    goDisabled,     \* injector: the disabled property of the Scrape & Save button
    runs,           \* injector, history: how many times runScrape was called
    clicks,         \* injector, history: clicks made on the button while it was disabled
    heightAhead,    \* scroll: document.body.scrollHeight less the distance scrolled, in steps of 400
    stepsLeft,      \* scroll, injector: the steps its loop has left, from the height read before it
    req,            \* save-questions handler: the request (platform, method, body)
    imageIdx,       \* save-questions handler: the entry of images the loop is at
    written,        \* save-questions handler, history: the paths of the files written
    status,         \* save-questions handler: the status of the response, 0 before it
    hostname,       \* question file api: window.location.hostname
    localOverride,  \* question file api: localStorage['local_active_question_file'], Null when absent
    serverFile,     \* question file api: the active file as the server has it
    lastCall,       \* question file api, history: the last call, how it settled, whether it fetched
    serverData,     \* admin data: the version of the submissions the server holds
    calls,          \* admin data: the loadData calls in the order they started
    submissions,    \* admin data: the version of the submissions the page shows, 0 for none
    rowsByStudent,  \* admin table: per student, the rows the loaded data gives and those the search term hits
    selectedStudent, \* admin table: the student selected, "" for none
    searchTerm,     \* admin table: the search term
    currentPage,    \* admin table: the page shown
    effectsPending, \* admin table: a render has happened whose effects have not run yet
    pageEvent       \* admin table, history: what changed the table state last

locVars == <<dom, qi, located, questionBlocks>>

saveVars == <<portIdx, probes, port, postResult, saved, downloaded>>

textVars == <<rawText, passes>>

adminVars == <<TEACHER_PIN, sessionUnlock, mounted, pinInput, apiKeyInput, adminApiKey,
               pinUnlocked, error, pressed>>

dlVars == <<dlChain, dlHop, dlFile, dlStream, dlUnlink, dlResult>>

\* the variables of the other components
btnVars == <<goDisabled, runs, clicks>>

scrollVars == <<heightAhead, stepsLeft>>

handlerVars == <<req, imageIdx, written, status>>

activeVars == <<hostname, localOverride, serverFile, lastCall>>

loadVars == <<serverData, calls, submissions>>

pageVars == <<rowsByStudent, selectedStudent, searchTerm, currentPage, effectsPending, pageEvent>>

otherVars == <<dlVars, btnVars, scrollVars, handlerVars, activeVars, loadVars, pageVars>>

\* what a scrape run never touches
sideVars == <<textVars, adminVars, otherVars>>

pipeVars == <<domQuestions, apiQuestions, apiState, di, dj, images, imageCounter,
              downloadedImages, named, jsonOut, log, requests, saveVars>>

vars == <<variant, pc, rawQuestions, locVars, pipeVars, sideVars>>

\* ---------------------------------------------------------------- bounds

\* Largest number of wrapper elements between a first-option button and the
\* element holding the other three option buttons.
MaxWrap == 11

\* Largest number of question blocks on a page.
MaxBlocks == 2

\* ------------------------------------------------------------- constants

\* The ascent bound of the locator walk.
MaxWalk == 10

Null == "null"

Undefined == "undefined"

\* an absent property and null, where the property otherwise holds text
UndefinedText == <<"#undefined">>

NullText == <<"#null">>

optLetters == <<"ka", "kha", "ga", "gha">>

keyMap == [ka |-> "a", kha |-> "b", ga |-> "c", gha |-> "d"]

Keys == {"a", "b", "c", "d"}

\* \s
Whitespace == {" ", "\n"}

\* [\s।\.\)] of the option-prefix pattern
Separators == Whitespace \cup {"|", ".", ")"}

\* \d
DigitChars == {"0", "1", "2", "3", "4", "5", "6", "7", "8", "9"}

\* ------------------------------------------------------------------ text

RECURSIVE TrimLeft(_)
TrimLeft(s) ==
    IF s = <<>> THEN s
    ELSE IF Head(s) \in Whitespace THEN TrimLeft(Tail(s)) ELSE s

RECURSIVE TrimRight(_)
TrimRight(s) ==
    IF s = <<>> THEN s
    ELSE IF s[Len(s)] \in Whitespace THEN TrimRight(SubSeq(s, 1, Len(s) - 1)) ELSE s

Trim(s) == TrimRight(TrimLeft(s))

StartsWith(s, c) == Len(s) > 0 /\ s[1] = c

RECURSIVE DropSeparators(_)
DropSeparators(s) ==
    IF s = <<>> THEN s
    ELSE IF Head(s) \in Separators THEN DropSeparators(Tail(s)) ELSE s

\* t.replace(new RegExp(`^${letter}[\\s\\u0964\\.\\)]*`), '').trim(), for a t that starts with letter
StripMarker(t) == Trim(DropSeparators(Tail(t)))

RECURSIVE Split(_, _)
\* s.split(sep)
Split(s, sep) ==
    LET k == CHOOSE n \in 1..(Len(s) + 1) : (n = Len(s) + 1 \/ s[n] = sep) /\ \A m \in 1..(n - 1) : s[m] # sep
    IN  IF k > Len(s) THEN <<s>>
        ELSE <<SubSeq(s, 1, k - 1)>> \o Split(SubSeq(s, k + 1, Len(s)), sep)

RECURSIVE Join(_, _)
\* lines.join(sep)
Join(lines, sep) ==
    IF lines = <<>> THEN <<>>
    ELSE IF Len(lines) = 1 THEN lines[1]
    ELSE lines[1] \o <<sep>> \o Join(Tail(lines), sep)

RECURSIVE KeepLongLines(_)
\* .filter(line => line.trim().length > 2)
KeepLongLines(lines) ==
    IF lines = <<>> THEN <<>>
    ELSE (IF Len(Trim(Head(lines))) > 2 THEN <<Head(lines)>> ELSE <<>>) \o KeepLongLines(Tail(lines))

RECURSIVE DropDigits(_)
DropDigits(s) ==
    IF s = <<>> THEN s
    ELSE IF Head(s) \in DigitChars THEN DropDigits(Tail(s)) ELSE s

\* .replace(/^(\d+)\s*[\.\।]\s*/, ''): one leading ordinal prefix, when there is one
StripOrdinal(s) ==
    LET afterDigits == DropDigits(s)
        afterSpace  == TrimLeft(afterDigits)
    IN  IF Len(afterDigits) < Len(s) /\ afterSpace # <<>> /\ Head(afterSpace) \in {".", "|"}
        THEN TrimLeft(Tail(afterSpace))
        ELSE s

RECURSIVE CollapseSpace(_)
\* .replace(/\s+/g, ' ')
CollapseSpace(s) ==
    IF s = <<>> THEN s
    ELSE IF Head(s) \in Whitespace THEN <<" ">> \o CollapseSpace(TrimLeft(s))
    ELSE <<Head(s)>> \o CollapseSpace(Tail(s))

\* injector: trim, drop the short lines, strip the ordinal, collapse whitespace, trim
normalizeInject(s) ==
    Trim(CollapseSpace(StripOrdinal(Join(KeepLongLines(Split(Trim(s), "\n")), "\n"))))

\* cli: collapse whitespace, trim, strip the ordinal, trim
normalizeCli(s) == Trim(StripOrdinal(Trim(CollapseSpace(s))))

\* ------------------------------------------------------------------- DOM

Elem(parent, tag, cls, text) == [parent |-> parent, tag |-> tag, cls |-> cls, text |-> text]

BlockKinds == {"full", "noGha", "dupKha", "dupKa", "shortKa"}

\* The option buttons of a block besides its first ka button, in document order.
OtherButtons(kind, g, teacher) ==
    LET kha  == Elem(g, "button", "", <<"kha", ")", " ", "y">>)
        kha2 == Elem(g, "button", "", <<"kha", ".", "z">>)
        ka2  == Elem(g, "button", "", <<"ka", ")", " ", "w">>)
        ga   == Elem(g, "button", IF teacher THEN "bg-green-500" ELSE "", <<"ga", ")", " ", "u">>)
        gha  == Elem(g, "button", "", <<"gha", "|", " ", "v">>)
    IN  CASE kind = "noGha"  -> <<kha, ga>>
          [] kind = "dupKha" -> <<kha, kha2, ga, gha>>
          [] kind = "dupKa"  -> <<ka2, kha, ga, gha>>
          [] OTHER           -> <<kha, ga, gha>>

\* One question block appended after `off` existing nodes, its container a
\* child of body (node 3):
\*   container > [ text, (sole wrapper >) grid > [ wrap* > ka, other buttons ], explanation ]
BlockNodes(off, kind, wrap, sole, teacher) ==
    LET c  == off + 1
        g  == IF sole THEN off + 4 ELSE off + 3
        kaText == IF kind = "shortKa" THEN <<"ka">> ELSE <<"ka", ")", " ", "x">>
    IN  <<Elem(3, "div", "question-container", <<>>), Elem(c, "div", "text-lg", <<"1", ".", " ", "q">>)>>
        \o (IF sole THEN <<Elem(c, "div", "", <<>>)>> ELSE <<>>)
        \o <<Elem(IF sole THEN g - 1 ELSE c, "div", "grid", <<>>)>>
        \o [k \in 1..wrap |-> Elem(g + k - 1, "span", "", <<>>)]
        \o <<Elem(g + wrap, "button", "", kaText)>>
        \o OtherButtons(kind, g, teacher)
        \o (IF teacher THEN <<Elem(c, "div", "bg-green-50", <<"e">>)>> ELSE <<>>)

RECURSIVE PageNodes(_, _, _, _, _)
PageNodes(nodes, kinds, wrap, sole, teacher) ==
    IF kinds = <<>> THEN nodes
    ELSE PageNodes(nodes \o BlockNodes(Len(nodes), Head(kinds), wrap, sole, teacher),
                   Tail(kinds), wrap, sole, teacher)

\* html > [head, body > blocks]
Page(kinds, wrap, sole, teacher) ==
    PageNodes(<<Elem(0, "html", "", <<>>), Elem(1, "head", "", <<>>), Elem(1, "body", "", <<>>)>>,
              kinds, wrap, sole, teacher)

RECURSIVE KindSeqs(_)
KindSeqs(n) ==
    IF n = 0 THEN {<<>>}
    ELSE LET shorter == KindSeqs(n - 1)
         IN  shorter \cup {Append(s, k) : s \in {t \in shorter : Len(t) = n - 1}, k \in BlockKinds}

Pages ==
    {Page(kinds, wrap, sole, teacher) :
        kinds \in KindSeqs(MaxBlocks), wrap \in 0..MaxWrap, sole \in BOOLEAN, teacher \in BOOLEAN}

\* How a block lays out its option buttons: in a .grid element or in an
\* element without that class, directly or each in a wrapper of its own, or
\* as children of the container itself.
Layouts == {"grid", "wrapped", "plain", "plainWrapped", "flat"}

\* where the explanation box sits among the container's children
ExplPositions == {"none", "first", "last"}

\* One question block appended after `off` existing nodes:
\*   container > [ explanation?, text, badge?, options, explanation? ]
LayoutNodes(off, layout, explPos, badge) ==
    LET c     == off + 1
        expl  == <<Elem(c, "div", "bg-green-50", <<"e">>)>>
        head  == <<Elem(3, "div", "question-container", <<>>)>>
                 \o (IF explPos = "first" THEN expl ELSE <<>>)
                 \o <<Elem(c, "div", "text-lg", <<"1", ".", " ", "q">>)>>
                 \o (IF badge THEN <<Elem(c, "span", "tag", <<"Admission">>)>> ELSE <<>>)
        g     == off + Len(head) + 1
        txt   == <<<<"ka", ")", " ", "x">>, <<"kha", ")", " ", "y">>,
                   <<"ga", ")", " ", "u">>, <<"gha", "|", " ", "v">>>>
        cls(k) == IF k = 3 /\ explPos # "none" THEN "bg-green-500" ELSE ""
        opts  == CASE layout = "flat" ->
                        [k \in 1..4 |-> Elem(c, "button", cls(k), txt[k])]
                   [] layout \in {"grid", "plain"} ->
                        <<Elem(c, "div", IF layout = "grid" THEN "grid" ELSE "", <<>>)>>
                        \o [k \in 1..4 |-> Elem(g, "button", cls(k), txt[k])]
                   [] OTHER ->
                        <<Elem(c, "div", IF layout = "wrapped" THEN "grid" ELSE "", <<>>)>>
                        \o [k \in 1..8 |-> IF k % 2 = 1 THEN Elem(g, "span", "", <<>>)
                                            ELSE Elem(g + k - 1, "button", cls(k \div 2), txt[k \div 2])]
    IN  head \o opts \o (IF explPos = "last" THEN expl ELSE <<>>)

RECURSIVE LayoutPageNodes(_, _, _, _)
LayoutPageNodes(nodes, layouts, explPos, badge) ==
    IF layouts = <<>> THEN nodes
    ELSE LayoutPageNodes(nodes \o LayoutNodes(Len(nodes), Head(layouts), explPos, badge),
                         Tail(layouts), explPos, badge)

RECURSIVE LayoutSeqs(_)
LayoutSeqs(n) ==
    IF n = 0 THEN {<<>>}
    ELSE LET shorter == LayoutSeqs(n - 1)
         IN  shorter \cup {Append(q, l) : q \in {t \in shorter : Len(t) = n - 1}, l \in Layouts}

\* the pages the text extraction is run on: html > [head, body > blocks]
TextPages ==
    {LayoutPageNodes(<<Elem(0, "html", "", <<>>), Elem(1, "head", "", <<>>), Elem(1, "body", "", <<>>)>>,
                     layouts, explPos, badge) :
        layouts \in LayoutSeqs(MaxBlocks), explPos \in ExplPositions, badge \in BOOLEAN}

parentElement(nodes, n) == nodes[n].parent

RECURSIVE Contains(_, _, _)
\* a is a proper ancestor of n (in document order an ancestor precedes its descendants)
Contains(nodes, a, n) ==
    LET p == nodes[n].parent
    IN  IF p < a THEN FALSE ELSE IF p = a THEN TRUE ELSE Contains(nodes, a, p)

innerText(nodes, n) == Trim(nodes[n].text)

\* el.querySelectorAll('button'): the descendant buttons (document order is index order)
Buttons(nodes, a) == {n \in 1..Len(nodes) : nodes[n].tag = "button" /\ Contains(nodes, a, n)}

AllButtons(nodes) == {n \in 1..Len(nodes) : nodes[n].tag = "button"}

children(nodes, a) == {n \in 1..Len(nodes) : nodes[n].parent = a}

RECURSIVE SortedSeq(_)
\* a set of nodes as the sequence in document order
SortedSeq(S) ==
    IF S = {} THEN <<>>
    ELSE LET m == CHOOSE x \in S : \A y \in S : x <= y
         IN  <<m>> \o SortedSeq(S \ {m})

\* ------------------------------------------------- locator and extractor

\* the first of optLetters that t starts with, or Null
RECURSIVE MarkerFrom(_, _)
MarkerFrom(t, k) ==
    IF k > Len(optLetters) THEN Null
    ELSE IF StartsWith(t, optLetters[k]) THEN optLetters[k] ELSE MarkerFrom(t, k + 1)

MarkerOf(t) == MarkerFrom(t, 1)

\* cls.includes('green') || cls.includes('correct') || cls.includes('bg-green');
\* the computed background follows the element's colour class
ClassIsGreen(cls) == cls \in {"bg-green-500", "bg-green-50", "correct"}

\* injector: buttons whose text starts with ka and is longer than the letter
kaButtons(nodes) ==
    SortedSeq({b \in AllButtons(nodes) :
                  StartsWith(innerText(nodes, b), "ka") /\ Len(innerText(nodes, b)) > 1})

\* cli: option buttons whose text starts with ka
kaButtonsCli(nodes) ==
    SortedSeq({b \in AllButtons(nodes) : StartsWith(innerText(nodes, b), "ka")})

\* mutant: some() where the code has every()
hasAll4_some(nodes, btns) ==
    \E k \in 1..Len(optLetters) :
        \E b \in btns : StartsWith(innerText(nodes, b), optLetters[k])

\* optLetters.every(l => btns.some(b => b.innerText.trim().startsWith(l)))
hasAll4(nodes, btns) ==
    \A k \in 1..Len(optLetters) :
        \E b \in btns : StartsWith(innerText(nodes, b), optLetters[k])

\* btns.filter(b => b.innerText.trim().startsWith('ka')).length
kaCount(nodes, btns) ==
    Cardinality({b \in btns : StartsWith(innerText(nodes, b), "ka")})

\* injector: for (i = 0; i < 10; i++) { if (!grid) break; if (hasAll4 && kaCount === 1) break; grid = parent }
RECURSIVE WalkGrid(_, _, _)
WalkGrid(nodes, g, i) ==
    IF i >= MaxWalk \/ g = 0 THEN g
    ELSE LET btns == Buttons(nodes, g)
         IN  IF hasAll4(nodes, btns) /\ kaCount(nodes, btns) = 1 THEN g
             ELSE WalkGrid(nodes, parentElement(nodes, g), i + 1)

optionsGridOf(nodes, kaBtn) == WalkGrid(nodes, parentElement(nodes, kaBtn), 0)

\* injector: the grid's parent, promoted once when it has at most one child
questionContainerOf(nodes, grid) ==
    LET q == parentElement(nodes, grid)
    IN  IF q # 0 /\ Cardinality(children(nodes, q)) <= 1 THEN parentElement(nodes, q) ELSE q

\* cli: while (container && attempts < 10) { if (has all four) ... break; container = parent; attempts++ }
RECURSIVE WalkContainer(_, _, _)
WalkContainer(nodes, c, attempts) ==
    IF c = 0 \/ attempts >= MaxWalk THEN 0
    ELSE IF hasAll4(nodes, Buttons(nodes, c)) THEN c
    ELSE WalkContainer(nodes, parentElement(nodes, c), attempts + 1)

containerOf(nodes, kaBtn) == WalkContainer(nodes, parentElement(nodes, kaBtn), 0)

SetKey(f, k, v) == [x \in DOMAIN f \cup {k} |-> IF x = k THEN v ELSE f[x]]

\* options[key] = text with the marker stripped, for each marked button in document order
RECURSIVE ExtractOptions(_, _, _)
ExtractOptions(nodes, btns, acc) ==
    IF btns = <<>> THEN acc
    ELSE LET t == innerText(nodes, Head(btns))
             m == MarkerOf(t)
         IN  ExtractOptions(nodes, Tail(btns),
                            IF m = Null THEN acc ELSE SetKey(acc, keyMap[m], StripMarker(t)))

OptionsIn(nodes, g) == ExtractOptions(nodes, SortedSeq(Buttons(nodes, g)), <<>>)

\* the keys of the marked buttons with a success colour or class, in document order
GreenKeys(nodes, g) ==
    LET green == SortedSeq({b \in Buttons(nodes, g) :
                     MarkerOf(innerText(nodes, b)) # Null /\ ClassIsGreen(nodes[b].cls)})
    IN  [k \in 1..Len(green) |-> keyMap[MarkerOf(innerText(nodes, green[k]))]]

\* injector: correctAnswer = key, assigned at every green button: the last one stays
correctAnswerInject(nodes, g) ==
    LET ks == GreenKeys(nodes, g) IN IF ks = <<>> THEN Null ELSE ks[Len(ks)]

\* cli: Object.keys(correctMap)[0] || null: the first key inserted
correctAnswerCli(nodes, g) ==
    LET ks == GreenKeys(nodes, g) IN IF ks = <<>> THEN Null ELSE ks[1]

\* injector: the text of the first child of the container, other than the grid, with a highlight class
explanationOf(nodes, qc, grid) ==
    LET hits == {c \in children(nodes, qc) : c # grid /\ ClassIsGreen(nodes[c].cls)}
    IN  IF hits = {} THEN <<>> ELSE innerText(nodes, SortedSeq(hits)[1])

\* n is one of the elements R or lies inside one
RemovedUnder(nodes, R, n) == n \in R \/ \E r \in R : Contains(nodes, r, n)

RECURSIVE TextFrom(_, _, _, _)
\* the text of the nodes from n on that lie in root's subtree and are not removed
TextFrom(nodes, root, R, n) ==
    IF n > Len(nodes) THEN <<>>
    ELSE (IF (n = root \/ Contains(nodes, root, n)) /\ ~RemovedUnder(nodes, R, n)
          THEN nodes[n].text ELSE <<>>)
         \o TextFrom(nodes, root, R, n + 1)

\* clone.innerText of a detached clone of root from which the elements R were
\* removed: an element that is not rendered gives its textContent
cloneText(nodes, root, R) == TextFrom(nodes, root, R, root)

RECURSIVE closest(_, _, _)
\* el.closest('.grid') inside the clone of root, 0 when no element matches
closest(nodes, root, n) ==
    IF nodes[n].cls = "grid" THEN n
    ELSE IF n = root THEN 0
    ELSE closest(nodes, root, nodes[n].parent)

\* [class*="green"], [class*="bg-green"]
ClassHasGreen(cls) == cls \in {"bg-green-500", "bg-green-50"}

\* t.includes('Ventures') || t.includes('Admission') || t.includes('-0.5') || ...
HasBadgeText(t) == \E k \in 1..Len(t) : t[k] \in {"Ventures", "Admission", "-0.5"}

\* injector: what the cleanup removes from the clone of the question container:
\* the grid of the first button, the green boxes, the tags and score badges
cloneRemoved(nodes, qc) ==
    LET gridOpts  == SortedSeq(Buttons(nodes, qc))
        cloneGrid == IF closest(nodes, qc, gridOpts[1]) # 0 THEN closest(nodes, qc, gridOpts[1])
                     ELSE parentElement(nodes, gridOpts[1])
        noGrid    == IF gridOpts = <<>> \/ cloneGrid = qc THEN {} ELSE {cloneGrid}
        noGreen   == noGrid \cup {n \in 1..Len(nodes) :
                                     Contains(nodes, qc, n) /\ ClassHasGreen(nodes[n].cls)}
    IN  noGreen \cup {n \in 1..Len(nodes) :
                         /\ Contains(nodes, qc, n) /\ nodes[n].tag \in {"span", "div"}
                         /\ ~RemovedUnder(nodes, noGreen, n)
                         /\ (HasBadgeText(cloneText(nodes, n, noGreen)) \/ nodes[n].cls = "tag")}

\* injector: qText
questionOf(nodes, qc) == normalizeInject(cloneText(nodes, qc, cloneRemoved(nodes, qc)))

\* cli: questionText, the text of the block's clone without its buttons
questionTextOf(nodes, block) == normalizeCli(cloneText(nodes, block, Buttons(nodes, block)))

\* ---------------------------------------------------------- locator runs

\* a network request: the answer-key fetch, an image download, a port probe, the POST
Req(kind, i, j) == [kind |-> kind, i |-> i, j |-> j]

\* fetch(...) is called
Issued(r) == [ev |-> "issue", req |-> r]

\* the awaited promise resolves or rejects
Settled(r) == [ev |-> "settle", req |-> r]

\* no text is under normalization
TextIdle == rawText = <<>> /\ passes = <<>>

\* the admin page is not mounted
AdminIdle ==
    /\ TEACHER_PIN = "" /\ sessionUnlock = Null /\ mounted = FALSE
    /\ pinInput = "" /\ apiKeyInput = <<>> /\ adminApiKey = Null
    /\ pinUnlocked = FALSE /\ error = Null /\ pressed = "none"

\* no downloadFile call is under way
DlIdle ==
    /\ dlChain = <<>> /\ dlHop = 1 /\ dlFile = [exists |-> FALSE, data |-> <<>>]
    /\ dlStream = "none" /\ dlUnlink = FALSE /\ dlResult = "none"

\* the other components are idle
\* the Scrape & Save button as the script creates it
BtnIdle == goDisabled = FALSE /\ runs = 0 /\ clicks = 0

\* no scroll is under way
ScrollIdle == heightAhead = 0 /\ stepsLeft = 0

\* the save-questions handler has no request
HandlerIdle == req = Null /\ imageIdx = 1 /\ written = {} /\ status = 0

\* the question file api has not been called
ActiveIdle ==
    /\ hostname = "localhost" /\ localOverride = Null /\ serverFile = "questions.json"
    /\ lastCall = [fn |-> "none"]

\* no loadData call was made
LoadIdle == serverData = 1 /\ calls = <<>> /\ submissions = 0

\* the table before any data is loaded
PageIdle ==
    /\ rowsByStudent = [s \in {"ann", "bob"} |-> [rows |-> 0, hits |-> 0]]
    /\ selectedStudent = ""
    /\ searchTerm = ""
    /\ currentPage = 1
    /\ effectsPending = FALSE
    /\ pageEvent = "none"

OtherIdle == DlIdle /\ BtnIdle /\ ScrollIdle /\ HandlerIdle /\ ActiveIdle /\ LoadIdle /\ PageIdle

\* the text, admin page and other variables, which a scrape run leaves alone
SideIdle == TextIdle /\ AdminIdle /\ OtherIdle

\* the emitter's state before it starts
SaveIdle ==
    /\ portIdx = 1
    /\ probes = <<>>
    /\ port = 0
    /\ postResult = "none"
    /\ saved = FALSE
    /\ downloaded = FALSE

\* the reconciliation and download state before that part of a run starts
PipeIdle ==
    /\ domQuestions = <<>>
    /\ apiQuestions = [kind |-> "array", items |-> <<>>]
    /\ apiState = "none"
    /\ di = 1 /\ dj = 1
    /\ images = <<>>
    /\ imageCounter = 1
    /\ downloadedImages = <<>>
    /\ named = {}
    /\ jsonOut = <<>>
    /\ log = <<>>
    /\ requests = <<>>
    /\ SaveIdle

\* injector, one iteration of the kaButtons loop (locate, then extract and push)
InjectLocate ==
    /\ variant = "inject" /\ pc = "locate"
    /\ qi <= Len(kaButtons(dom))
    /\ LET kaBtn == kaButtons(dom)[qi]
           grid  == optionsGridOf(dom, kaBtn)
           qc    == IF grid = 0 THEN 0 ELSE questionContainerOf(dom, grid)
       IN  IF grid = 0 \/ qc = 0
           THEN UNCHANGED <<located, rawQuestions>>
           ELSE /\ located' = Append(located, [ka |-> kaBtn, grid |-> grid, container |-> qc])
                /\ rawQuestions' = Append(rawQuestions,
                      [question      |-> questionOf(dom, qc),
                       options       |-> OptionsIn(dom, grid),
                       correctAnswer |-> correctAnswerInject(dom, grid),
                       explanation   |-> explanationOf(dom, qc, grid),
                       imageUrls     |-> <<>>,
                       svgCode       |-> <<>>,
                       localImage    |-> UndefinedText,
                       originalUrl   |-> UndefinedText])
    /\ qi' = qi + 1
    /\ UNCHANGED <<variant, pc, dom, questionBlocks, pipeVars, sideVars>>

\* injector: the loop is over; "[FIND] Extracted n questions from DOM"
InjectLocated ==
    /\ variant = "inject" /\ pc = "locate"
    /\ qi > Len(kaButtons(dom))
    /\ pc' = "extracted"
    /\ UNCHANGED <<variant, dom, qi, located, questionBlocks, rawQuestions, pipeVars, sideVars>>

\* cli, one iteration of the kaButtons loop: push the container unless already processed
CliLocate ==
    /\ variant = "cli" /\ pc = "locate"
    /\ qi <= Len(kaButtonsCli(dom))
    /\ LET kaBtn == kaButtonsCli(dom)[qi]
           c     == containerOf(dom, kaBtn)
       IN  IF c = 0 \/ (\E k \in 1..Len(questionBlocks) : questionBlocks[k] = c)
           THEN UNCHANGED <<located, questionBlocks>>
           ELSE /\ questionBlocks' = Append(questionBlocks, c)
                /\ located' = Append(located, [ka |-> kaBtn, grid |-> c, container |-> c])
    /\ IF qi = Len(kaButtonsCli(dom)) THEN pc' = "extract" /\ qi' = 1
                                      ELSE pc' = pc /\ qi' = qi + 1
    /\ UNCHANGED <<variant, dom, rawQuestions, pipeVars, sideVars>>

\* cli: no option buttons at all, or no ka button: nothing to locate
CliLocateNone ==
    /\ variant = "cli" /\ pc = "locate"
    /\ Len(kaButtonsCli(dom)) = 0
    /\ pc' = "extracted"
    /\ UNCHANGED <<variant, dom, qi, located, questionBlocks, rawQuestions, pipeVars, sideVars>>

\* cli, one iteration of the questionBlocks loop
CliExtract ==
    /\ variant = "cli" /\ pc = "extract"
    /\ IF qi <= Len(questionBlocks)
       THEN /\ rawQuestions' = Append(rawQuestions,
                  [questionText  |-> questionTextOf(dom, questionBlocks[qi]),
                   options       |-> OptionsIn(dom, questionBlocks[qi]),
                   correctAnswer |-> correctAnswerCli(dom, questionBlocks[qi]),
                   imageUrls     |-> <<>>,
                   hasImage      |-> FALSE,
                   localImages   |-> <<>>])
            /\ qi' = qi + 1
            /\ pc' = IF qi = Len(questionBlocks) THEN "extracted" ELSE pc
       ELSE /\ pc' = "extracted"
            /\ UNCHANGED <<qi, rawQuestions>>
    /\ UNCHANGED <<variant, dom, located, questionBlocks, pipeVars, sideVars>>

InitLocator ==
    /\ variant \in {"inject", "cli"}
    /\ pc = "locate"
    /\ dom \in Pages
    /\ qi = 1
    /\ located = <<>>
    /\ questionBlocks = <<>>
    /\ rawQuestions = <<>>
    /\ PipeIdle
    /\ SideIdle

\* a locator run over a page of the text extraction family
InitText ==
    /\ variant \in {"inject", "cli"}
    /\ pc = "locate"
    /\ dom \in TextPages
    /\ qi = 1
    /\ located = <<>>
    /\ questionBlocks = <<>>
    /\ rawQuestions = <<>>
    /\ PipeIdle
    /\ SideIdle

NextLocator == InjectLocate \/ InjectLocated \/ CliLocate \/ CliLocateNone \/ CliExtract

SpecLocator == InitLocator /\ [][NextLocator]_vars

SpecText == InitText /\ [][NextLocator]_vars

\* ------------------------------------------- reconciliation and download

\* Largest number of extracted records a run starts the reconciliation with.
MaxQ == 2

\* Largest number of entries in the answer-key list.
MaxApi == 2

\* image URLs, cut at every '.', '/' after the host and '?'
UrlA == <<"http://h", ".", "com", "/", "a", ".", "PNG", "?", "v=1">>

UrlB == <<"http://h", ".", "com", "/", "b", ".", "jpg">>

\* no extension in the path
UrlC == <<"http://h", ".", "com", "/", "c">>

UrlD == <<"http://cdn", "/", "d", ".", "webp">>

OptionsAll == [a |-> <<"x">>, b |-> <<"y">>, c |-> <<"u">>, d |-> <<"v">>]

\* toLowerCase()
toLowerCase(x) ==
    CASE x = "A" -> "a" [] x = "B" -> "b" [] x = "C" -> "c" [] x = "D" -> "d"
      [] x = "E" -> "e" [] x = "PNG" -> "png" [] OTHER -> x

\* JavaScript truthiness of a scalar and of a text
Truthy(x) == x \notin {Undefined, Null, ""}

TruthyText(t) == t \notin {<<>>, UndefinedText, NullText}

IsString(x) == x \notin {Undefined, Null, "num:2", "fn:Object"}

\* ansMap[x] with ansMap = { A: 'a', B: 'b', C: 'c', D: 'd' }: an own key, a key
\* inherited from Object.prototype (a function), or undefined
ansMap(x) ==
    CASE x \in {"A", "B", "C", "D"} -> toLowerCase(x)
      [] x = "constructor" -> "fn:Object"
      [] OTHER -> Undefined

\* the records the injector's extractor can leave
RawKinds ==
    LET R(ca, ex, urls, svg) ==
            [question |-> <<"q">>, options |-> OptionsAll, correctAnswer |-> ca,
             explanation |-> ex, imageUrls |-> urls, svgCode |-> svg,
             localImage |-> UndefinedText, originalUrl |-> UndefinedText]
    IN  { R(Null, <<>>, <<>>, <<>>),
          R("b", <<"e">>, <<UrlA>>, <<>>),
          R(Null, <<>>, <<UrlA, UrlB>>, <<"svg">>),
          R("c", <<>>, <<>>, <<"svg">>) }

\* the records the cli's extractor can leave
RawKindsCli ==
    LET R(ca, urls) ==
            [questionText |-> <<"q">>, options |-> OptionsAll, correctAnswer |-> ca,
             imageUrls |-> urls, hasImage |-> Len(urls) > 0, localImages |-> <<>>]
    IN  { R(Null, <<>>), R("c", <<UrlA>>), R("b", <<UrlB, UrlC>>) }

RECURSIVE SeqsUpTo(_, _)
\* the sequences over S of length at most n
SeqsUpTo(S, n) ==
    IF n = 0 THEN {<<>>}
    ELSE LET shorter == SeqsUpTo(S, n - 1)
         IN  shorter \cup {Append(q, x) : q \in {t \in shorter : Len(t) = n - 1}, x \in S}

\* entries of the answer-key list: without q, or q with an answer, a
\* meta.ai_explanation and the image URLs its text fields hold
ApiKinds ==
    LET Q(ans, aiKind, aiText, urls) ==
            [hasQ |-> TRUE, answer |-> ans, ai |-> [kind |-> aiKind, text |-> aiText], urls |-> urls]
    IN  { [hasQ |-> FALSE, answer |-> Undefined, ai |-> [kind |-> "undefined", text |-> <<>>], urls |-> <<>>],
          Q("D", "string", <<"s">>, <<UrlA>>),
          Q("b", "object", <<"o">>, <<UrlD>>),
          Q("E", "undefined", <<>>, <<>>),
          Q("num:2", "undefined", <<>>, <<>>),
          Q(Undefined, "object", <<>>, <<UrlD, UrlD>>),
          Q("constructor", "string", <<>>, <<>>) }

\* data?.data?.exam?.questions of a parsed answer-key body
ApiBodies ==
    {[kind |-> "absent", items |-> <<>>], [kind |-> "object", items |-> <<>>]}
    \cup {[kind |-> "array", items |-> q] : q \in SeqsUpTo(ApiKinds, MaxApi)}

\* apiQuestions.length, as the loop bound reads it (undefined compares false)
apiLength(api) == IF api.kind = "array" THEN Len(api.items) ELSE 0

NoQ == [hasQ |-> TRUE, answer |-> Undefined, ai |-> [kind |-> "undefined", text |-> <<>>], urls |-> <<>>]

\* mutant: every record is paired with the first entry of the list
apiQAt_first(api, i) ==
    IF api.kind = "array" /\ i <= Len(api.items) /\ api.items[1].hasQ THEN api.items[1] ELSE NoQ

\* apiQuestions[i]?.q || {}   (i is 1-based here)
apiQAt(api, i) ==
    IF api.kind = "array" /\ i <= Len(api.items) /\ api.items[i].hasQ THEN api.items[i] ELSE NoQ

\* mutant: every match is pushed
pushNew_all(imageUrls, urlMatches) == imageUrls \o urlMatches

RECURSIVE pushNew(_, _)
\* for (const url of urlMatches) if (!imageUrls.includes(url)) imageUrls.push(url)
pushNew(imageUrls, urlMatches) ==
    IF urlMatches = <<>> THEN imageUrls
    ELSE pushNew(IF \E k \in 1..Len(imageUrls) : imageUrls[k] = Head(urlMatches)
                 THEN imageUrls ELSE Append(imageUrls, Head(urlMatches)),
                 Tail(urlMatches))

\* mutant: the API explanation replaces the DOM explanation
apiExplanation_apiFirst(q, apiQ) ==
    IF apiQ.ai.kind = "string" /\ apiQ.ai.text # <<>> THEN apiQ.ai.text
    ELSE IF apiQ.ai.kind = "object" THEN apiQ.ai.text
    ELSE q.explanation

\* const e = apiQ?.meta?.ai_explanation; if (e) explanation = typeof e === 'string' ? e : (e.explanation || '')
apiExplanation(q, apiQ) ==
    IF TruthyText(q.explanation) THEN q.explanation
    ELSE IF apiQ.ai.kind = "string" /\ apiQ.ai.text # <<>> THEN apiQ.ai.text
    ELSE IF apiQ.ai.kind = "object" THEN apiQ.ai.text
    ELSE q.explanation

\* the reconciliation loop over i < apiQuestions.length && i < rawQuestions.length
reconcile(raw, api) ==
    [i \in 1..Len(raw) |->
        IF i <= apiLength(api)
        THEN [raw[i] EXCEPT !.imageUrls = pushNew(@, apiQAt(api, i).urls),
                            !.explanation = apiExplanation(raw[i], apiQAt(api, i))]
        ELSE raw[i]]

RECURSIVE Digits(_)
\* a positive number in decimal, one digit per element
Digits(n) ==
    LET d == <<"0", "1", "2", "3", "4", "5", "6", "7", "8", "9">>
    IN  IF n < 10 THEN <<d[n + 1]>> ELSE Digits(n \div 10) \o <<d[(n % 10) + 1]>>

RECURSIVE LastIndexOf(_, _, _)
LastIndexOf(s, c, k) == IF k = 0 THEN 0 ELSE IF s[k] = c THEN k ELSE LastIndexOf(s, c, k - 1)

RECURSIVE IndexOf(_, _, _)
IndexOf(s, c, k) == IF k > Len(s) THEN 0 ELSE IF s[k] = c THEN k ELSE IndexOf(s, c, k + 1)

\* injector: (url.split('.').pop() || 'png').split('?')[0].toLowerCase()
extOf(url) ==
    LET dot    == LastIndexOf(url, ".", Len(url))
        popped == SubSeq(url, dot + 1, Len(url))
        piece  == IF popped = <<>> THEN <<"png">> ELSE popped
        q      == IndexOf(piece, "?", 1)
        first  == IF q = 0 THEN piece ELSE SubSeq(piece, 1, q - 1)
    IN  [k \in 1..Len(first) |-> toLowerCase(first[k])]

\* mutant: the question number is left out of the name
fnameOf_noQuestion(i, j, url) == <<"q">> \o Digits(1) \o <<"_img">> \o Digits(j) \o <<".">> \o extOf(url)

\* injector: `q${i + 1}_img${j + 1}.${ext}`   (i, j are 1-based here)
fnameOf(i, j, url) == <<"q">> \o Digits(i) \o <<"_img">> \o Digits(j) \o <<".">> \o extOf(url)

\* cli: path.extname(new URL(imgUrl).pathname) || '.png'
extnameOf(url) ==
    LET q     == IndexOf(url, "?", 1)
        noQ   == IF q = 0 THEN url ELSE SubSeq(url, 1, q - 1)
        slash == LastIndexOf(noQ, "/", Len(noQ))
        base  == SubSeq(noQ, slash + 1, Len(noQ))
        dot   == LastIndexOf(base, ".", Len(base))
    IN  IF slash = 0 \/ dot <= 1 THEN <<".", "png">> ELSE SubSeq(base, dot, Len(base))

\* cli: `${outputName}_q${i + 1}_${imageCounter}${ext}`
fnameCli(i, counter, url) ==
    <<"out", "_q">> \o Digits(i) \o <<"_">> \o Digits(counter) \o extnameOf(url)

\* the position of the image loop after (i, j): the next image, skipping
\* questions without images; i = Len + 1 when the loop is over
RECURSIVE loopFrom(_, _, _)
loopFrom(raw, i, j) ==
    IF i > Len(raw) THEN <<i, 1>>
    ELSE IF j <= Len(raw[i].imageUrls) THEN <<i, j>>
    ELSE loopFrom(raw, i + 1, 1)

nameVars == <<variant, dom, qi, located, questionBlocks, domQuestions, saveVars, sideVars>>

\* mutant: no catch around the answer-key fetch
FetchApiFails_uncaught ==
    /\ variant = "inject" /\ pc = "fetch"
    /\ apiState' = "failed"
    /\ log' = log \o <<"NET">>
    /\ requests' = requests \o <<Issued(Req("api", 0, 0)), Settled(Req("api", 0, 0))>>
    /\ pc' = "thrown"
    /\ UNCHANGED <<nameVars, rawQuestions, apiQuestions, di, dj, images, imageCounter,
                   downloadedImages, named, jsonOut>>

\* injector: the answer-key request is rejected, or its body does not parse:
\* the catch logs the warning and apiQuestions stays []
FetchApiFails ==
    /\ variant = "inject" /\ pc = "fetch"
    /\ apiState' = "failed"
    /\ log' = log \o <<"NET", "WARN-API">>
    /\ requests' = requests \o <<Issued(Req("api", 0, 0)), Settled(Req("api", 0, 0))>>
    /\ pc' = "download"
    /\ UNCHANGED <<nameVars, rawQuestions, apiQuestions, di, dj, images, imageCounter,
                   downloadedImages, named, jsonOut>>

\* injector: the answer-key body parses; apiQuestions = data?.data?.exam?.questions || [],
\* then the reconciliation loop; the body is one of `bodies`
FetchApiFrom(bodies) ==
    /\ variant = "inject" /\ pc = "fetch"
    /\ \E body \in bodies :
          /\ apiQuestions' = IF body.kind = "absent" THEN [kind |-> "array", items |-> <<>>] ELSE body
          /\ rawQuestions' = reconcile(rawQuestions, apiQuestions')
    /\ apiState' = "ok"
    /\ log' = log \o <<"NET", "OK-API">>
    /\ requests' = requests \o <<Issued(Req("api", 0, 0)), Settled(Req("api", 0, 0))>>
    /\ pc' = "download"
    /\ UNCHANGED <<nameVars, di, dj, images, imageCounter, downloadedImages, named, jsonOut>>

FetchApi == FetchApiFrom(ApiBodies)

\* injector: an iteration of the image loop up to its fetch: the name is
\* generated and q.localImage, q.originalUrl are set
DownloadStart ==
    /\ variant = "inject" /\ pc = "download"
    /\ LET pos == loopFrom(rawQuestions, di, dj)
           i   == pos[1]
           j   == pos[2]
       IN  /\ i <= Len(rawQuestions)
           /\ di' = i /\ dj' = j
           /\ rawQuestions' =
                 [rawQuestions EXCEPT ![i].localImage =
                                          <<"/images/">> \o fnameOf(i, j, rawQuestions[i].imageUrls[j]),
                                      ![i].originalUrl = rawQuestions[i].imageUrls[j]]
           /\ named' = named \cup {<<i, j, fnameOf(i, j, rawQuestions[i].imageUrls[j])>>}
           /\ requests' = Append(requests, Issued(Req("image", i, j)))
    /\ pc' = "downloading"
    /\ UNCHANGED <<nameVars, apiQuestions, apiState, images, imageCounter, downloadedImages,
                   jsonOut, log>>

\* mutant: the image fetch is not awaited
DownloadSettle_notAwaited ==
    /\ variant = "inject" /\ pc = "downloading"
    /\ \E ok \in BOOLEAN :
          IF ok
          THEN /\ images' = SetKey(images, fnameOf(di, dj, rawQuestions[di].imageUrls[dj]),
                                   <<"data:">> \o rawQuestions[di].imageUrls[dj])
               /\ log' = Append(log, "IMG")
          ELSE /\ images' = images
               /\ log' = Append(log, "WARN-IMG")
    /\ requests' = requests
    /\ dj' = dj + 1
    /\ pc' = "download"
    /\ UNCHANGED <<nameVars, rawQuestions, apiQuestions, apiState, di, imageCounter,
                   downloadedImages, named, jsonOut>>

\* injector: the image fetch settles: images[fname] = b64, or the catch logs a warning
DownloadSettle ==
    /\ variant = "inject" /\ pc = "downloading"
    /\ \E ok \in BOOLEAN :
          IF ok
          THEN /\ images' = SetKey(images, fnameOf(di, dj, rawQuestions[di].imageUrls[dj]),
                                   <<"data:">> \o rawQuestions[di].imageUrls[dj])
               /\ log' = Append(log, "IMG")
          ELSE /\ images' = images
               /\ log' = Append(log, "WARN-IMG")
    /\ requests' = Append(requests, Settled(Req("image", di, dj)))
    /\ dj' = dj + 1
    /\ pc' = "download"
    /\ UNCHANGED <<nameVars, rawQuestions, apiQuestions, apiState, di, imageCounter,
                   downloadedImages, named, jsonOut>>

\* mutant: the DOM letter is preferred to the API answer
correctOf_domFirst(q, apiQ) ==
    IF Truthy(q.correctAnswer) THEN q.correctAnswer
    ELSE IF Truthy(apiQ.answer)
    THEN IF Truthy(ansMap(apiQ.answer)) THEN ansMap(apiQ.answer) ELSE toLowerCase(apiQ.answer)
    ELSE q.correctAnswer

\* const correct = apiQ.answer ? (ansMap[apiQ.answer] || apiQ.answer.toLowerCase()) : q.correctAnswer
correctOf(q, apiQ) ==
    IF Truthy(apiQ.answer)
    THEN IF Truthy(ansMap(apiQ.answer)) THEN ansMap(apiQ.answer) ELSE toLowerCase(apiQ.answer)
    ELSE q.correctAnswer

\* apiQ.answer.toLowerCase is not a function
correctThrows(apiQ) ==
    Truthy(apiQ.answer) /\ ~Truthy(ansMap(apiQ.answer)) /\ ~IsString(apiQ.answer)

\* mutant: the 0-based map index is used as the id
jsonRecord_zeroBased(q, i, apiQ) ==
    [id               |-> i - 1,
     subject          |-> <<"subject">>,
     question         |-> q.question,
     options          |-> q.options,
     correctAnswer    |-> IF Truthy(correctOf(q, apiQ)) THEN correctOf(q, apiQ)
                          ELSE IF Truthy(q.correctAnswer) THEN q.correctAnswer ELSE Null,
     explanation      |-> IF TruthyText(q.explanation) THEN q.explanation ELSE <<>>,
     hasDiagram       |-> TruthyText(q.localImage) \/ TruthyText(q.svgCode),
     image            |-> IF TruthyText(q.localImage) THEN q.localImage ELSE NullText,
     originalImageUrl |-> IF TruthyText(q.originalUrl) THEN q.originalUrl ELSE NullText,
     svg_code         |-> IF TruthyText(q.svgCode) THEN q.svgCode ELSE <<>>,
     topic            |-> <<>>]

\* one element of rawQuestions.map((q, i) => ...)
jsonRecord(q, i, apiQ) ==
    [id               |-> i,
     subject          |-> <<"subject">>,
     question         |-> q.question,
     options          |-> q.options,
     correctAnswer    |-> IF Truthy(correctOf(q, apiQ)) THEN correctOf(q, apiQ)
                          ELSE IF Truthy(q.correctAnswer) THEN q.correctAnswer ELSE Null,
     explanation      |-> IF TruthyText(q.explanation) THEN q.explanation ELSE <<>>,
     hasDiagram       |-> TruthyText(q.localImage) \/ TruthyText(q.svgCode),
     image            |-> IF TruthyText(q.localImage) THEN q.localImage ELSE NullText,
     originalImageUrl |-> IF TruthyText(q.originalUrl) THEN q.originalUrl ELSE NullText,
     svg_code         |-> IF TruthyText(q.svgCode) THEN q.svgCode ELSE <<>>,
     topic            |-> <<>>]

\* injector: the image loop is over; jsonOut is built, unless the map throws,
\* which ends the run (nothing catches it)
BuildJson ==
    /\ variant = "inject" /\ pc = "download"
    /\ loopFrom(rawQuestions, di, dj)[1] > Len(rawQuestions)
    /\ IF \E i \in 1..Len(rawQuestions) : correctThrows(apiQAt(apiQuestions, i))
       THEN /\ pc' = "thrown"
            /\ UNCHANGED <<jsonOut, log>>
       ELSE /\ jsonOut' = [i \in 1..Len(rawQuestions) |->
                              jsonRecord(rawQuestions[i], i, apiQAt(apiQuestions, i))]
            /\ log' = Append(log, "SAVE")
            /\ pc' = "probe"
    /\ UNCHANGED <<nameVars, rawQuestions, apiQuestions, apiState, di, dj, images,
                   imageCounter, downloadedImages, named, requests>>

\* how an awaited downloadFile ends: its promise resolves; it rejects (the
\* request emits 'error'); it never settles, or the process ends on an
\* unhandled 'error' event (the response or the write stream fails after the
\* response began, which nothing listens to)
DownloadOutcomes == {"resolved", "rejected", "stalled", "crashed"}

\* cli: one image of the download loop: the name is generated, downloadFile
\* resolves (the path is pushed, the counter moves on) or the catch logs
CliDownload ==
    /\ variant = "cli" /\ pc = "download"
    /\ LET pos == loopFrom(rawQuestions, di, dj)
           i   == pos[1]
           j   == pos[2]
           fname == fnameCli(i, imageCounter, rawQuestions[i].imageUrls[j])
       IN  /\ i <= Len(rawQuestions)
           /\ di' = i /\ dj' = j + 1
           /\ named' = named \cup {<<i, j, fname>>}
           /\ \E outcome \in DownloadOutcomes :
                 CASE outcome = "resolved" ->
                        /\ rawQuestions' = [rawQuestions EXCEPT ![i].localImages =
                                                Append(@, <<"/images/">> \o fname)]
                        /\ downloadedImages' = Append(downloadedImages, fname)
                        /\ imageCounter' = imageCounter + 1
                        /\ log' = Append(log, "IMG")
                        /\ requests' = requests \o <<Issued(Req("image", i, j)), Settled(Req("image", i, j))>>
                        /\ pc' = pc
                   [] outcome = "rejected" ->
                        /\ UNCHANGED <<rawQuestions, downloadedImages, imageCounter>>
                        /\ log' = Append(log, "WARN-IMG")
                        /\ requests' = requests \o <<Issued(Req("image", i, j)), Settled(Req("image", i, j))>>
                        /\ pc' = pc
                   [] OTHER ->
                        /\ UNCHANGED <<rawQuestions, downloadedImages, imageCounter, log>>
                        /\ requests' = Append(requests, Issued(Req("image", i, j)))
                        /\ pc' = outcome
    /\ UNCHANGED <<variant, dom, qi, located, questionBlocks, domQuestions,
                   apiQuestions, apiState, images, jsonOut, saveVars, sideVars>>

\* cli: one element of questions.map((q, idx) => ...)
jsonRecordCli(q, idx) ==
    [id            |-> idx,
     subject       |-> <<"subject">>,
     question      |-> IF Len(q.localImages) > 0
                       THEN <<"[IMAGE:">> \o q.localImages[1] \o <<"] ">> \o q.questionText
                       ELSE q.questionText,
     options       |-> q.options,
     correctAnswer |-> q.correctAnswer,
     explanation   |-> <<>>,
     hasDiagram    |-> q.hasImage,
     svg_code      |-> <<>>,
     topic         |-> <<>>]

\* cli: the download loop is over; jsonData is built and written
CliBuildJson ==
    /\ variant = "cli" /\ pc = "download"
    /\ loopFrom(rawQuestions, di, dj)[1] > Len(rawQuestions)
    /\ jsonOut' = [i \in 1..Len(rawQuestions) |-> jsonRecordCli(rawQuestions[i], i)]
    /\ log' = Append(log, "DONE")
    /\ pc' = "done"
    /\ UNCHANGED <<nameVars, rawQuestions, apiQuestions, apiState, di, dj, images,
                   imageCounter, downloadedImages, named, requests>>

\* cli: no question was found: the run returns before the download loop
CliNoQuestions ==
    /\ variant = "cli" /\ pc = "start" /\ Len(rawQuestions) = 0
    /\ log' = Append(log, "NONE")
    /\ pc' = "done"
    /\ UNCHANGED <<nameVars, rawQuestions, apiQuestions, apiState, di, dj, images,
                   imageCounter, downloadedImages, named, jsonOut, requests>>

\* cli: questions were found: the output directories are made
CliStart ==
    /\ variant = "cli" /\ pc = "start" /\ Len(rawQuestions) > 0
    /\ pc' = "download"
    /\ UNCHANGED <<nameVars, rawQuestions, apiQuestions, apiState, di, dj, images,
                   imageCounter, downloadedImages, named, jsonOut, log, requests>>

Init ==
    /\ variant \in {"inject", "cli"}
    /\ dom = <<>> /\ qi = 1 /\ located = <<>> /\ questionBlocks = <<>>
    /\ rawQuestions \in (IF variant = "inject" THEN SeqsUpTo(RawKinds, MaxQ)
                                               ELSE SeqsUpTo(RawKindsCli, MaxQ))
    /\ pc = IF variant = "inject" THEN "fetch" ELSE "start"
    /\ domQuestions = rawQuestions
    /\ apiQuestions = [kind |-> "array", items |-> <<>>]
    /\ apiState = "none"
    /\ di = 1 /\ dj = 1
    /\ images = <<>>
    /\ imageCounter = 1
    /\ downloadedImages = <<>>
    /\ named = {}
    /\ jsonOut = <<>>
    /\ log = <<>>
    /\ requests = <<>>
    /\ SaveIdle
    /\ SideIdle

Next ==
    \/ FetchApiFails \/ FetchApi \/ DownloadStart \/ DownloadSettle \/ BuildJson
    \/ CliNoQuestions \/ CliStart \/ CliDownload \/ CliBuildJson

Spec == Init /\ [][Next]_vars


\* ------------------------------------------------------------ whole run

\* the extraction is over: the injector goes on to the answer-key fetch, the
\* cli returns the records from page.evaluate
Handoff ==
    /\ pc = "extracted"
    /\ pc' = IF variant = "inject" THEN "fetch" ELSE "start"
    /\ domQuestions' = rawQuestions
    /\ UNCHANGED <<variant, rawQuestions, locVars, apiQuestions, apiState, di, dj, images,
                   imageCounter, downloadedImages, named, jsonOut, log, requests, saveVars,
                   sideVars>>

\* the pages a whole run is made on: no wrappers around the first-option button
RunPages == {Page(kinds, 0, FALSE, teacher) : kinds \in KindSeqs(MaxBlocks), teacher \in BOOLEAN}

\* the answer-key lists of a whole run: at most one entry
RunBodies ==
    {[kind |-> "absent", items |-> <<>>]}
    \cup {[kind |-> "array", items |-> q] : q \in SeqsUpTo(ApiKinds, 1)}

InitRun ==
    /\ variant \in {"inject", "cli"}
    /\ pc = "locate"
    /\ dom \in RunPages
    /\ qi = 1
    /\ located = <<>>
    /\ questionBlocks = <<>>
    /\ rawQuestions = <<>>
    /\ PipeIdle
    /\ SideIdle

NextRun ==
    \/ NextLocator \/ Handoff
    \/ FetchApiFails \/ FetchApiFrom(RunBodies) \/ DownloadStart \/ DownloadSettle \/ BuildJson
    \/ CliNoQuestions \/ CliStart \/ CliBuildJson

SpecRun == InitRun /\ [][NextRun]_vars

\* ------------------------------------------------- page-stabilization scroll

\* Largest document height when the scroll starts, in steps of 400 pixels.
MaxHeight == 12

\* Largest height the document has ahead of the scroll position, in steps.
MaxAhead == 16

scrollFrame ==
    UNCHANGED <<variant, rawQuestions, locVars, pipeVars, textVars, adminVars, dlVars, btnVars,
                handlerVars, activeVars, loadVars, pageVars>>

\* the page loads more content: the document grows by a step
Grow ==
    /\ pc = "scroll"
    /\ heightAhead < MaxAhead
    /\ heightAhead' = heightAhead + 1
    /\ UNCHANGED <<pc, stepsLeft>>
    /\ scrollFrame

\* injector: one iteration of for (let y = 0; y < totalHeight; y += 400)
ScrollStep ==
    /\ variant = "inject" /\ pc = "scroll"
    /\ stepsLeft > 0
    /\ stepsLeft' = stepsLeft - 1
    /\ heightAhead' = IF heightAhead > 0 THEN heightAhead - 1 ELSE 0
    /\ UNCHANGED pc
    /\ scrollFrame

\* injector: the loop is over: scrollTo(0, 0), the 800 ms wait, extraction
ScrollDone ==
    /\ variant = "inject" /\ pc = "scroll"
    /\ stepsLeft = 0
    /\ pc' = "scrolled"
    /\ UNCHANGED <<heightAhead, stepsLeft>>
    /\ scrollFrame

\* cli: one tick of the interval: scrollBy, totalHeight += distance, and when
\* totalHeight >= document.body.scrollHeight the timer is cleared, the promise
\* resolves and extraction follows
ScrollTick ==
    /\ variant = "cli" /\ pc = "scroll"
    /\ heightAhead' = IF heightAhead > 0 THEN heightAhead - 1 ELSE 0
    /\ pc' = IF heightAhead <= 1 THEN "scrolled" ELSE pc
    /\ UNCHANGED stepsLeft
    /\ scrollFrame

InitScroll ==
    /\ variant \in {"inject", "cli"}
    /\ pc = "scroll"
    /\ dom = <<>> /\ qi = 1 /\ located = <<>> /\ questionBlocks = <<>>
    /\ rawQuestions = <<>>
    /\ PipeIdle
    /\ TextIdle /\ AdminIdle /\ DlIdle /\ BtnIdle /\ HandlerIdle /\ ActiveIdle /\ LoadIdle /\ PageIdle
    /\ heightAhead \in 0..MaxHeight
    /\ stepsLeft = IF variant = "inject" THEN heightAhead ELSE 0

NextScroll == Grow \/ ScrollStep \/ ScrollDone \/ ScrollTick

\* the timers of the scroll fire; the page may or may not grow
SpecScroll ==
    /\ InitScroll /\ [][NextScroll]_vars
    /\ WF_vars(ScrollStep) /\ WF_vars(ScrollDone) /\ WF_vars(ScrollTick)

\* ------------------------------------------------- save-questions handler

\* Longest filename and longest image key of a request, in tokens.
MaxName == 3

\* what names are made of: a letter, the full stop, the two separators, and
\* the letters json in either case
NameChars == {"a", ".", "/", "\\", "json", "JSON"}

\* the characters /[^a-zA-Z0-9\-_.]/ does not match
SafeChars == {"a", ".", "json", "JSON", "_", "-"}

\* mutant: names are used as they come
sanitize_none(name) == name

\* name.replace(/[^a-zA-Z0-9\-_.]/g, "_")
sanitize(name) == [k \in 1..Len(name) |-> IF name[k] \in SafeChars THEN name[k] ELSE "_"]

\* s.replace(/\.json$/i, "")
dropJson(s) ==
    IF Len(s) >= 2 /\ s[Len(s)] \in {"json", "JSON"} /\ s[Len(s) - 1] = "."
    THEN SubSeq(s, 1, Len(s) - 2) ELSE s

\* path.join's separators: '/', and on win32 '\' as well
slashes(platform, s) ==
    [k \in 1..Len(s) |-> IF platform = "win32" /\ s[k] = "\\" THEN "/" ELSE s[k]]

RECURSIVE resolveSegments(_, _)
\* path.normalize: '.' and empty segments are dropped, '..' takes a segment
\* off, or stays when there is none to take
resolveSegments(dir, segs) ==
    IF segs = <<>> THEN dir
    ELSE LET seg == Head(segs)
         IN  resolveSegments(
                 IF seg = <<>> \/ seg = <<".">> THEN dir
                 ELSE IF seg = <<".", ".">>
                 THEN IF dir # <<>> /\ dir[Len(dir)] # <<".", ".">>
                      THEN SubSeq(dir, 1, Len(dir) - 1) ELSE Append(dir, seg)
                 ELSE Append(dir, seg),
                 Tail(segs))

\* path.join(dir, name), a path being its segments below process.cwd()
pathJoin(platform, dir, name) == resolveSegments(dir, Split(slashes(platform, name), "/"))

publicDir == <<<<"public">>>>

imagesDir == <<<<"public">>, <<"images">>>>

\* the directories that exist once the handler has made them
directories == {<<>>, publicDir, imagesDir}

\* the bodies: no filename, a filename that is no string, questions that are
\* no array, a filename alone, a filename with one image or with two
Names == SeqsUpTo(NameChars, MaxName)

Bodies ==
    {[filename |-> f, isString |-> TRUE, questionsOk |-> ok, images |-> <<>>] :
        f \in Names, ok \in BOOLEAN}
    \cup {[filename |-> <<"a">>, isString |-> FALSE, questionsOk |-> TRUE, images |-> <<>>]}
    \cup {[filename |-> <<"a">>, isString |-> TRUE, questionsOk |-> TRUE,
           images |-> <<[key |-> k, isDataUrl |-> d]>>] : k \in Names, d \in BOOLEAN}
    \cup {[filename |-> <<"a">>, isString |-> TRUE, questionsOk |-> TRUE,
           images |-> <<[key |-> <<"a">>, isDataUrl |-> TRUE], [key |-> k, isDataUrl |-> TRUE]>>] :
             k \in Names \ {<<"a">>}}

Requests ==
    {[platform |-> pf, method |-> m, body |-> b] :
        pf \in {"posix", "win32"}, m \in {"POST"}, b \in Bodies}
    \cup {[platform |-> "posix", method |-> m, body |-> b] :
        m \in {"OPTIONS", "GET"}, b \in {x \in Bodies : x.filename = <<"a">>}}

handlerFrame ==
    UNCHANGED <<variant, rawQuestions, locVars, pipeVars, textVars, adminVars, dlVars, btnVars,
                scrollVars, activeVars, loadVars, pageVars, req>>

\* the handler up to its try: preflight, method, the required fields; then
\* the sanitized name, which throws when filename has no replace
HandlerStart ==
    /\ pc = "handler"
    /\ IF req.method = "OPTIONS" THEN status' = 204 /\ pc' = "responded"
       ELSE IF req.method # "POST" THEN status' = 405 /\ pc' = "responded"
       ELSE IF req.body.filename = <<>> \/ ~req.body.questionsOk
       THEN status' = 400 /\ pc' = "responded"
       ELSE IF ~req.body.isString THEN status' = 500 /\ pc' = "responded"
       ELSE status' = status /\ pc' = "writeJson"
    /\ UNCHANGED <<imageIdx, written>>
    /\ handlerFrame

\* fs.mkdir(publicDir), fs.writeFile(jsonPath, ...): the file is written unless
\* the path is a directory, which the catch answers with 500
HandlerWriteJson ==
    /\ pc = "writeJson"
    /\ LET safe     == dropJson(sanitize(req.body.filename))
           jsonPath == pathJoin(req.platform, publicDir, safe \o <<".", "json">>)
       IN  IF jsonPath \in directories
           THEN written' = written /\ status' = 500 /\ pc' = "responded"
           ELSE /\ written' = written \cup {[kind |-> "json", path |-> jsonPath]}
                /\ status' = status
                /\ pc' = "writeImages"
    /\ UNCHANGED imageIdx
    /\ handlerFrame

\* one entry of Object.entries(images): a data URL is decoded and written
\* under its sanitized key; a failing write is caught and logged
HandlerWriteImage ==
    /\ pc = "writeImages"
    /\ imageIdx <= Len(req.body.images)
    /\ LET entry     == req.body.images[imageIdx]
           safeFname == sanitize(entry.key)
           dest      == pathJoin(req.platform, imagesDir, safeFname)
       IN  written' = IF entry.isDataUrl /\ dest \notin directories
                      THEN written \cup {[kind |-> "image", path |-> dest]}
                      ELSE written
    /\ imageIdx' = imageIdx + 1
    /\ UNCHANGED <<pc, status>>
    /\ handlerFrame

\* res.status(200).json(...)
HandlerRespond ==
    /\ pc = "writeImages"
    /\ imageIdx > Len(req.body.images)
    /\ status' = 200
    /\ pc' = "responded"
    /\ UNCHANGED <<imageIdx, written>>
    /\ handlerFrame

InitHandler ==
    /\ variant = "inject"
    /\ pc = "handler"
    /\ dom = <<>> /\ qi = 1 /\ located = <<>> /\ questionBlocks = <<>>
    /\ rawQuestions = <<>>
    /\ PipeIdle
    /\ TextIdle /\ AdminIdle /\ DlIdle /\ BtnIdle /\ ScrollIdle /\ ActiveIdle /\ LoadIdle /\ PageIdle
    /\ req \in Requests
    /\ imageIdx = 1
    /\ written = {}
    /\ status = 0

NextHandler == HandlerStart \/ HandlerWriteJson \/ HandlerWriteImage \/ HandlerRespond

SpecHandler == InitHandler /\ [][NextHandler]_vars

\* ------------------------------------------------- active question file

\* the file names a caller passes and a server holds
FileNames == {"", "a.json", "b.json"}

Hostnames == {"localhost", "127.0.0.1", "exam.example"}

isLocalhost == hostname = "localhost" \/ hostname = "127.0.0.1"

\* how the server answers GET /api/get-active-question-file: the fetch
\* rejects; a status that is not OK; an OK body that is no JSON; an OK body
\* that is a JSON object; an OK body that is the JSON null
GetAnswers == {"network-error", "not-ok", "unparsable", "object", "null"}

\* how /exam-config.json is answered when it is asked for
ConfigAnswers == {"network-error", "not-ok", "unparsable", "no-field", "a.json"}

\* how the server answers POST /api/set-active-question-file: the fetch
\* rejects; a status that is not OK; OK with a JSON body; OK with a body that
\* is no JSON
SetAnswers == {"network-error", "not-ok", "ok", "ok-unparsable"}

activeFrame ==
    UNCHANGED <<variant, pc, rawQuestions, locVars, pipeVars, textVars, adminVars, dlVars,
                btnVars, scrollVars, handlerVars, loadVars, pageVars, hostname>>

\* what getActiveQuestionFile returns when it has to ask
fetchedActive(answer, config) ==
    CASE answer = "network-error" ->
           IF config \in FileNames
           THEN [kind |-> "object", activeFile |-> config, source |-> "exam-config"]
           ELSE [kind |-> "object", activeFile |-> "questions.json", source |-> "default"]
      [] answer = "not-ok" ->
           [kind |-> "object", activeFile |-> "questions.json", source |-> Undefined]
      [] answer = "unparsable" ->
           [kind |-> "object", activeFile |-> "questions.json", source |-> "default"]
      [] answer = "object" ->
           [kind |-> "object", activeFile |-> serverFile, source |-> "server"]
      [] OTHER ->
           [kind |-> "null", activeFile |-> Undefined, source |-> Undefined]

\* getActiveQuestionFile(): the local override when localStorage has a truthy
\* one, else what the server says, else the fallbacks
getActiveQuestionFile ==
    /\ pc = "api"
    /\ \E answer \in GetAnswers, config \in ConfigAnswers :
          lastCall' =
              IF localOverride \notin {Null, ""}
              THEN [fn |-> "get", arg |-> Undefined, before |-> localOverride,
                    settled |-> "resolved", fetched |-> FALSE,
                    value |-> [kind |-> "object", activeFile |-> localOverride,
                               source |-> "local-override"]]
              ELSE [fn |-> "get", arg |-> Undefined, before |-> localOverride,
                    settled |-> "resolved", fetched |-> TRUE,
                    value |-> fetchedActive(answer, config)]
    /\ UNCHANGED <<localOverride, serverFile>>
    /\ activeFrame

\* setActiveQuestionFile(fileName): the POST; on a rejected fetch or a status
\* that is not OK the override is stored on localhost only and the call
\* rejects elsewhere; on OK the override is stored and res.json() returned
setActiveQuestionFile ==
    /\ pc = "api"
    /\ \E fileName \in FileNames, answer \in SetAnswers :
          /\ localOverride' = IF answer \in {"ok", "ok-unparsable"} \/ isLocalhost
                              THEN fileName ELSE localOverride
          /\ serverFile' = IF answer \in {"ok", "ok-unparsable"} THEN fileName ELSE serverFile
          /\ lastCall' = [fn |-> "set", arg |-> fileName, before |-> localOverride,
                          settled |-> IF answer = "ok" \/ (isLocalhost /\ answer # "ok-unparsable")
                                      THEN "resolved" ELSE "rejected",
                          fetched |-> TRUE, value |-> answer]
    /\ activeFrame

\* another client changes the server's active file
ServerChange ==
    /\ pc = "api"
    /\ \E f \in FileNames \ {"", serverFile} : serverFile' = f
    /\ UNCHANGED <<localOverride, lastCall>>
    /\ activeFrame

InitActive ==
    /\ variant = "inject"
    /\ pc = "api"
    /\ dom = <<>> /\ qi = 1 /\ located = <<>> /\ questionBlocks = <<>>
    /\ rawQuestions = <<>>
    /\ PipeIdle
    /\ TextIdle /\ AdminIdle /\ DlIdle /\ BtnIdle /\ ScrollIdle /\ HandlerIdle /\ LoadIdle /\ PageIdle
    /\ hostname \in Hostnames
    /\ localOverride = Null
    /\ serverFile = "a.json"
    /\ lastCall = [fn |-> "none"]

NextActive == getActiveQuestionFile \/ setActiveQuestionFile \/ ServerChange

SpecActive == InitActive /\ [][NextActive]_vars

\* ------------------------------------------------- admin page: loadData

\* Most loadData calls that are followed.
MaxCalls == 3

\* Most versions of the submissions the server goes through.
MaxData == 3

loadFrame ==
    UNCHANGED <<variant, pc, rawQuestions, locVars, pipeVars, textVars, adminVars, dlVars,
                btnVars, scrollVars, handlerVars, activeVars, pageVars>>

\* loadData is called: by the mount effect, the 30 s timer, Refresh or Retry,
\* after a delete, after a question-set save; its requests are sent
LoadStart ==
    /\ pc = "loadData"
    /\ Len(calls) < MaxCalls
    /\ calls' = Append(calls, [state |-> "sent", ok |-> TRUE, data |-> 0])
    /\ UNCHANGED <<serverData, submissions>>
    /\ loadFrame

\* the server changes its data: a submission comes in, one is deleted
DataChange ==
    /\ pc = "loadData"
    /\ serverData < MaxData
    /\ serverData' = serverData + 1
    /\ UNCHANGED <<calls, submissions>>
    /\ loadFrame

\* the server answers the requests of a call with the data it has, or fails
ServerAnswers ==
    /\ pc = "loadData"
    /\ \E k \in 1..Len(calls), ok \in BOOLEAN :
          /\ calls[k].state = "sent"
          /\ calls' = [calls EXCEPT ![k] = [state |-> "answered", ok |-> ok,
                                             data |-> IF ok THEN serverData ELSE 0]]
    /\ UNCHANGED <<serverData, submissions>>
    /\ loadFrame

\* the answer of a call arrives: Promise.all settles and the call goes on to
\* setSubmissions(data), or to its catch
LoadSettles ==
    /\ pc = "loadData"
    /\ \E k \in 1..Len(calls) :
          /\ calls[k].state = "answered"
          /\ calls' = [calls EXCEPT ![k].state = "settled"]
          /\ submissions' = IF calls[k].ok THEN calls[k].data ELSE submissions
    /\ UNCHANGED serverData
    /\ loadFrame

InitLoad ==
    /\ variant = "inject"
    /\ pc = "loadData"
    /\ dom = <<>> /\ qi = 1 /\ located = <<>> /\ questionBlocks = <<>>
    /\ rawQuestions = <<>>
    /\ PipeIdle
    /\ TextIdle /\ AdminIdle /\ DlIdle /\ BtnIdle /\ ScrollIdle /\ HandlerIdle /\ ActiveIdle /\ PageIdle
    /\ serverData = 1
    /\ calls = <<>>
    /\ submissions = 0

NextLoad == LoadStart \/ DataChange \/ ServerAnswers \/ LoadSettles

SpecLoad == InitLoad /\ [][NextLoad]_vars

\* ------------------------------------------------- admin page: table pages

ITEMS_PER_PAGE == 7

Students == <<"ann", "bob">>

Terms == {"", "x"}

\* what a load can give for one student: the rows of the student (submissions,
\* and the pending entry put in front) and how many of them the term "x" hits
StudentRows ==
    {r \in [rows : {0, 3, 8, 15}, hits : {0, 1, 8}] : r.hits <= r.rows}

Datasets == [{"ann", "bob"} -> StudentRows]

\* the names that have a submission or a pending entry, sorted
studentNames == SelectSeq(Students, LAMBDA s : rowsByStudent[s].rows > 0)

Listed(name) == \E k \in 1..Len(studentNames) : studentNames[k] = name

\* filteredRows.length
filteredRowsLength ==
    IF selectedStudent = "" THEN 0
    ELSE IF searchTerm = "" THEN rowsByStudent[selectedStudent].rows
    ELSE rowsByStudent[selectedStudent].hits

\* Math.max(1, Math.ceil(filteredRows.length / ITEMS_PER_PAGE))
totalPages ==
    LET pages == (filteredRowsLength + ITEMS_PER_PAGE - 1) \div ITEMS_PER_PAGE
    IN  IF pages > 1 THEN pages ELSE 1

\* a clamp effect that leaves the page alone
clamp_none(page, total) == page

\* the effect on [currentPage, totalPages]
clamp(page, total) == IF page > total THEN total ELSE page

\* the effect on [studentNames, selectedStudent]
reselect ==
    IF Len(studentNames) = 0 THEN ""
    ELSE IF selectedStudent = "" \/ ~Listed(selectedStudent) THEN studentNames[1]
    ELSE selectedStudent

pageFrame ==
    UNCHANGED <<variant, pc, rawQuestions, locVars, pipeVars, textVars, adminVars, dlVars,
                btnVars, scrollVars, handlerVars, activeVars, loadVars>>

\* the student select changes to one of its options
SelectStudent ==
    /\ pc = "table"
    /\ \E name \in {studentNames[k] : k \in 1..Len(studentNames)} :
          selectedStudent' = name
    /\ currentPage' = 1
    /\ effectsPending' = TRUE
    /\ pageEvent' = "select"
    /\ UNCHANGED <<rowsByStudent, searchTerm>>
    /\ pageFrame

\* the search input changes
EditSearch ==
    /\ pc = "table"
    /\ \E term \in Terms : searchTerm' = term
    /\ currentPage' = 1
    /\ effectsPending' = TRUE
    /\ pageEvent' = "search"
    /\ UNCHANGED <<rowsByStudent, selectedStudent>>
    /\ pageFrame

\* the table asks for one of the pages it has
PageChange ==
    /\ pc = "table"
    /\ \E page \in 1..totalPages : currentPage' = page
    /\ effectsPending' = TRUE
    /\ pageEvent' = "page"
    /\ UNCHANGED <<rowsByStudent, selectedStudent, searchTerm>>
    /\ pageFrame

\* a loadData call, by itself or after a delete, sets the data it got
Reload ==
    /\ pc = "table"
    /\ \E data \in Datasets : rowsByStudent' = data
    /\ effectsPending' = TRUE
    /\ pageEvent' = "reload"
    /\ UNCHANGED <<selectedStudent, searchTerm, currentPage>>
    /\ pageFrame

\* the effects of the last render run, each on the values of that render; what
\* they set makes the next render
RunEffects ==
    /\ pc = "table"
    /\ effectsPending
    /\ selectedStudent' = reselect
    /\ currentPage' = clamp(currentPage, totalPages)
    /\ effectsPending' = (selectedStudent' # selectedStudent \/ currentPage' # currentPage)
    /\ pageEvent' = IF currentPage' # currentPage THEN "clamped"
                    ELSE IF selectedStudent' # selectedStudent THEN "reselected"
                    ELSE pageEvent
    /\ UNCHANGED <<rowsByStudent, searchTerm>>
    /\ pageFrame

InitPages ==
    /\ variant = "inject"
    /\ pc = "table"
    /\ dom = <<>> /\ qi = 1 /\ located = <<>> /\ questionBlocks = <<>>
    /\ rawQuestions = <<>>
    /\ PipeIdle
    /\ TextIdle /\ AdminIdle /\ DlIdle /\ BtnIdle /\ ScrollIdle /\ HandlerIdle /\ ActiveIdle
    /\ LoadIdle
    /\ rowsByStudent = [s \in {"ann", "bob"} |-> [rows |-> 0, hits |-> 0]]
    /\ selectedStudent = ""
    /\ searchTerm = ""
    /\ currentPage = 1
    /\ effectsPending = TRUE
    /\ pageEvent = "none"

NextPages == SelectStudent \/ EditSearch \/ PageChange \/ Reload \/ RunEffects

SpecPages == InitPages /\ [][NextPages]_vars

\* ------------------------------------------------- Scrape & Save button

\* Most calls of runScrape that are followed.
MaxRuns == 2

\* Most clicks on the disabled button that are followed.
MaxClicks == 2

\* mutant: the handler leaves the button enabled
Click_staysEnabled ==
    /\ variant = "inject" /\ ~goDisabled
    /\ runs < MaxRuns
    /\ goDisabled' = FALSE
    /\ runs' = runs + 1
    /\ pc' = IF pc = "ready" THEN "locate" ELSE pc
    /\ UNCHANGED <<variant, rawQuestions, locVars, pipeVars, textVars, adminVars, dlVars,
                   scrollVars, handlerVars, activeVars, loadVars, pageVars, clicks>>

\* a click on the enabled button: the handler hides the inputs, disables the
\* button and calls runScrape, which has its own record list and asset bundle
Click ==
    /\ variant = "inject" /\ ~goDisabled
    /\ runs < MaxRuns
    /\ goDisabled' = TRUE
    /\ runs' = runs + 1
    /\ pc' = IF pc = "ready" THEN "locate" ELSE pc
    /\ UNCHANGED <<variant, rawQuestions, locVars, pipeVars, textVars, adminVars, dlVars,
                   scrollVars, handlerVars, activeVars, loadVars, pageVars, clicks>>

\* a click on the disabled button: no click event is dispatched
ClickDisabled ==
    /\ variant = "inject" /\ goDisabled
    /\ clicks < MaxClicks
    /\ clicks' = clicks + 1
    /\ UNCHANGED <<variant, pc, rawQuestions, locVars, pipeVars, textVars, adminVars, dlVars,
                   scrollVars, handlerVars, activeVars, loadVars, pageVars, goDisabled, runs>>

\* the script has built its overlay and waits for the click
InitButton ==
    /\ variant = "inject"
    /\ pc = "ready"
    /\ dom \in RunPages
    /\ qi = 1
    /\ located = <<>>
    /\ questionBlocks = <<>>
    /\ rawQuestions = <<>>
    /\ PipeIdle
    /\ SideIdle

NextButton ==
    \/ Click \/ ClickDisabled
    \/ InjectLocate \/ InjectLocated \/ Handoff
    \/ FetchApiFails \/ FetchApiFrom(RunBodies) \/ DownloadStart \/ DownloadSettle \/ BuildJson

SpecButton == InitButton /\ [][NextButton]_vars

\* --------------------------------------------------------------- emitter

\* for (const port of [3000, 51007, 5173, 4173])
ports == <<3000, 51007, 5173, 4173>>

\* what a probe can end in: the fetch throws (refused, or aborted by the
\* 800 ms timeout), or it resolves with a status
ProbeResults ==
    {[threw |-> TRUE, status |-> 0]}
    \cup {[threw |-> FALSE, status |-> st] : st \in {204, 404, 500, 502}}

\* mutant: <= where the code has <
probeAccepts_upTo500(r) == ~r.threw /\ r.status <= 500

\* if (r.status < 500) return port
probeAccepts(r) == ~r.threw /\ r.status < 500

\* findLocalPort: one iteration of the loop
ProbePort ==
    /\ variant = "inject" /\ pc = "probe"
    /\ portIdx <= Len(ports)
    /\ \E r \in ProbeResults :
          /\ probes' = Append(probes, [port |-> ports[portIdx], threw |-> r.threw, status |-> r.status])
          /\ requests' = requests \o <<Issued(Req("probe", portIdx, 0)), Settled(Req("probe", portIdx, 0))>>
          /\ IF probeAccepts(r)
             THEN port' = ports[portIdx] /\ pc' = "post" /\ portIdx' = portIdx
             ELSE port' = port /\ pc' = pc /\ portIdx' = portIdx + 1
    /\ UNCHANGED <<variant, rawQuestions, locVars, domQuestions, apiQuestions, apiState, di, dj,
                   images, imageCounter, downloadedImages, named, jsonOut, log,
                   postResult, saved, downloaded, sideVars>>

\* findLocalPort: the loop is over without a return: return 3000
ProbeNone ==
    /\ variant = "inject" /\ pc = "probe"
    /\ portIdx > Len(ports)
    /\ port' = 3000
    /\ pc' = "post"
    /\ UNCHANGED <<variant, rawQuestions, locVars, domQuestions, apiQuestions, apiState, di, dj,
                   images, imageCounter, downloadedImages, named, jsonOut, log, requests,
                   portIdx, probes, postResult, saved, downloaded, sideVars>>

\* how the POST can end: the fetch rejects, the body is not JSON, the body
\* is null, an object without success ({ error }), or { success: true } with
\* or without saved images
PostResults == {"rejected", "not-json", "null", "error", "success", "success-images"}

\* result.success, where reading it does not throw
postSucceeds(r) == r \in {"success", "success-images"}

\* mutant: the fallback runs whatever saved is
fallbackRuns_always(s) == TRUE

\* if (!saved): the download fallback runs
fallbackRuns(s) == ~s

\* the log lines from the POST's end to the end of runScrape
endLog(r) ==
    (CASE r = "success"        -> <<"OK-SAVED">>
       [] r = "success-images" -> <<"OK-SAVED", "OK-IMAGES">>
       [] OTHER                -> <<"WARN-SAVE">>)
    \o (IF fallbackRuns(postSucceeds(r)) THEN <<"DOWN", "OK-DOWNLOADED", "INFO">> ELSE <<>>)
    \o <<"DONE">>

\* the POST settles; then, without another await, the fallback and the
\* completion line
Post ==
    /\ variant = "inject" /\ pc = "post"
    /\ \E r \in PostResults :
          /\ postResult' = r
          /\ saved' = postSucceeds(r)
          /\ downloaded' = fallbackRuns(postSucceeds(r))
          /\ log' = log \o endLog(r)
    /\ requests' = requests \o <<Issued(Req("post", 0, 0)), Settled(Req("post", 0, 0))>>
    /\ pc' = "done"
    /\ UNCHANGED <<variant, rawQuestions, locVars, domQuestions, apiQuestions, apiState, di, dj,
                   images, imageCounter, downloadedImages, named, jsonOut,
                   portIdx, probes, port, sideVars>>

InitSave ==
    /\ variant = "inject"
    /\ pc = "probe"
    /\ dom = <<>> /\ qi = 1 /\ located = <<>> /\ questionBlocks = <<>>
    /\ rawQuestions \in SeqsUpTo(RawKinds, 1)
    /\ domQuestions = rawQuestions
    /\ apiQuestions = [kind |-> "array", items |-> <<>>]
    /\ apiState \in {"ok", "failed"}
    /\ di = Len(rawQuestions) + 1 /\ dj = 1
    /\ images = <<>>
    /\ imageCounter = 1
    /\ downloadedImages = <<>>
    /\ named = {}
    /\ jsonOut = [i \in 1..Len(rawQuestions) |-> jsonRecord(rawQuestions[i], i, NoQ)]
    /\ log = <<"NET", IF apiState = "ok" THEN "OK-API" ELSE "WARN-API", "SAVE">>
    /\ requests = <<Issued(Req("api", 0, 0)), Settled(Req("api", 0, 0))>>
    /\ SaveIdle
    /\ SideIdle

NextSave == ProbePort \/ ProbeNone \/ Post

SpecSave == InitSave /\ [][NextSave]_vars

\* ------------------------------------------- a run with its network traffic

\* the extracted records of such a run: none, or two questions with images
NetQuestions ==
    IF variant = "inject"
    THEN {<<>>} \cup {<<a, b>> : a \in {q \in RawKinds : Len(q.imageUrls) = 2},
                                 b \in {q \in RawKinds : Len(q.imageUrls) = 1}}
    ELSE {<<>>} \cup {<<a, b>> : a \in {q \in RawKindsCli : Len(q.imageUrls) = 2},
                                 b \in {q \in RawKindsCli : Len(q.imageUrls) = 1}}

\* the answer-key lists of such a run: none, or one entry that adds an image URL
NetBodies ==
    {[kind |-> "absent", items |-> <<>>]}
    \cup {[kind |-> "array", items |-> <<k>>] : k \in {a \in ApiKinds : a.urls = <<UrlD>>}}

InitNet ==
    /\ variant \in {"inject", "cli"}
    /\ dom = <<>> /\ qi = 1 /\ located = <<>> /\ questionBlocks = <<>>
    /\ rawQuestions \in NetQuestions
    /\ pc = IF variant = "inject" THEN "fetch" ELSE "start"
    /\ domQuestions = rawQuestions
    /\ apiQuestions = [kind |-> "array", items |-> <<>>]
    /\ apiState = "none"
    /\ di = 1 /\ dj = 1
    /\ images = <<>>
    /\ imageCounter = 1
    /\ downloadedImages = <<>>
    /\ named = {}
    /\ jsonOut = <<>>
    /\ log = <<>>
    /\ requests = <<>>
    /\ SaveIdle
    /\ SideIdle

NextNet ==
    \/ FetchApiFails \/ FetchApiFrom(NetBodies) \/ DownloadStart \/ DownloadSettle \/ BuildJson
    \/ CliNoQuestions \/ CliStart \/ CliDownload \/ CliBuildJson
    \/ NextSave

SpecNet == InitNet /\ [][NextNet]_vars

\* --------------------------------------------- question-text normalization

\* Longest text handed to the normalization.
MaxText == 4

\* Number of times the normalization is applied in a row.
MaxPasses == 2

\* a digit, the full stop, the danda, a space, a line break, a letter
Chars == {"1", ".", "|", " ", "\n", "x"}

\* the normalization of the variant at hand
normalize(s) == IF variant = "inject" THEN normalizeInject(s) ELSE normalizeCli(s)

\* the normalization is applied to the text, or to its own last result
Normalize ==
    /\ pc = "normalize"
    /\ Len(passes) < MaxPasses
    /\ passes' = Append(passes, normalize(IF passes = <<>> THEN rawText ELSE passes[Len(passes)]))
    /\ UNCHANGED <<variant, pc, rawQuestions, locVars, pipeVars, rawText, adminVars, otherVars>>

InitNorm ==
    /\ variant \in {"inject", "cli"}
    /\ pc = "normalize"
    /\ dom = <<>> /\ qi = 1 /\ located = <<>> /\ questionBlocks = <<>>
    /\ rawQuestions = <<>>
    /\ PipeIdle
    /\ AdminIdle
    /\ OtherIdle
    /\ rawText \in SeqsUpTo(Chars, MaxText)
    /\ passes = <<>>

NextNorm == Normalize

SpecNorm == InitNorm /\ [][NextNorm]_vars

\* ------------------------------------------------------------ admin page

\* the values of VITE_TEACHER_PIN || '': not configured, or one of two PINs
PinValues == {"", "1", "12"}

\* what can be typed into the PIN field
PinInputs == {"", "1", "12", "2"}

\* what can be typed into the API key field
KeyInputs == {<<>>, <<" ">>, <<" ", "k">>}

\* what sessionStorage holds under 'teacher_admin_unlock' when the page loads
SessionValues == {Null, "1", "0"}

\* what the component renders
View ==
    IF ~mounted THEN "none"
    ELSE IF error # Null THEN "error"
    ELSE IF ~pinUnlocked THEN "lock"
    ELSE "dashboard"

\* the scrape run stays where it is
AdminFrame ==
    UNCHANGED <<variant, pc, rawQuestions, locVars, pipeVars, textVars, otherVars, TEACHER_PIN>>

\* the component mounts: the initial state of its hooks
Mount ==
    /\ pc = "admin" /\ ~mounted
    /\ mounted' = TRUE
    /\ pinInput' = "" /\ apiKeyInput' = <<>>
    /\ pinUnlocked' = IF TEACHER_PIN = "" THEN TRUE ELSE sessionUnlock = "1"
    /\ error' = Null
    /\ pressed' = "mount"
    /\ AdminFrame /\ UNCHANGED <<sessionUnlock, adminApiKey>>

\* the page is left or reloaded: the hooks' state is gone, sessionStorage stays
Unmount ==
    /\ pc = "admin" /\ mounted
    /\ mounted' = FALSE
    /\ pinInput' = "" /\ apiKeyInput' = <<>>
    /\ pinUnlocked' = FALSE
    /\ error' = Null
    /\ pressed' = "unmount"
    /\ AdminFrame /\ UNCHANGED <<sessionUnlock, adminApiKey>>

\* loadData resolves
LoadOk ==
    /\ pc = "admin" /\ mounted
    /\ error' = Null
    /\ pressed' = "load"
    /\ AdminFrame /\ UNCHANGED <<sessionUnlock, mounted, pinInput, apiKeyInput, adminApiKey,
                                 pinUnlocked>>

\* loadData rejects
LoadFails ==
    /\ pc = "admin" /\ mounted
    /\ error' = "Failed to load admin data."
    /\ pressed' = "load"
    /\ AdminFrame /\ UNCHANGED <<sessionUnlock, mounted, pinInput, apiKeyInput, adminApiKey,
                                 pinUnlocked>>

\* the PIN field changes
SetPinInput ==
    /\ pc = "admin" /\ View = "lock"
    /\ \E v \in PinInputs : pinInput' = v
    /\ pressed' = "input"
    /\ AdminFrame /\ UNCHANGED <<sessionUnlock, mounted, apiKeyInput, adminApiKey, pinUnlocked,
                                 error>>

\* the API key field changes
SetApiKeyInput ==
    /\ pc = "admin" /\ View = "lock"
    /\ \E v \in KeyInputs : apiKeyInput' = v
    /\ pressed' = "input"
    /\ AdminFrame /\ UNCHANGED <<sessionUnlock, mounted, pinInput, adminApiKey, pinUnlocked,
                                 error>>

\* mutant: Unlock does not compare the PIN
Unlock_anyPin ==
    /\ pc = "admin" /\ View = "lock"
    /\ adminApiKey' = IF Trim(apiKeyInput) # <<>> THEN Trim(apiKeyInput) ELSE adminApiKey
    /\ sessionUnlock' = "1"
    /\ pinUnlocked' = TRUE
    /\ pressed' = "unlock"
    /\ AdminFrame /\ UNCHANGED <<mounted, pinInput, apiKeyInput, error>>

\* the Unlock button of the lock screen
Unlock ==
    /\ pc = "admin" /\ View = "lock"
    /\ IF pinInput = TEACHER_PIN
       THEN /\ adminApiKey' = IF Trim(apiKeyInput) # <<>> THEN Trim(apiKeyInput) ELSE adminApiKey
            /\ sessionUnlock' = "1"
            /\ pinUnlocked' = TRUE
       ELSE UNCHANGED <<adminApiKey, sessionUnlock, pinUnlocked>>
    /\ pressed' = "unlock"
    /\ AdminFrame /\ UNCHANGED <<mounted, pinInput, apiKeyInput, error>>

\* the Lock button of the dashboard, rendered when a PIN is configured
Lock ==
    /\ pc = "admin" /\ View = "dashboard" /\ TEACHER_PIN # ""
    /\ sessionUnlock' = Null
    /\ pinUnlocked' = FALSE
    /\ pinInput' = ""
    /\ pressed' = "lock"
    /\ AdminFrame /\ UNCHANGED <<mounted, apiKeyInput, adminApiKey, error>>

InitAdmin ==
    /\ variant = "inject"
    /\ pc = "admin"
    /\ dom = <<>> /\ qi = 1 /\ located = <<>> /\ questionBlocks = <<>>
    /\ rawQuestions = <<>>
    /\ PipeIdle
    /\ TextIdle
    /\ OtherIdle
    /\ TEACHER_PIN \in PinValues
    /\ sessionUnlock \in SessionValues
    /\ mounted = FALSE
    /\ pinInput = "" /\ apiKeyInput = <<>> /\ adminApiKey = Null
    /\ pinUnlocked = FALSE /\ error = Null /\ pressed = "none"

NextAdmin ==
    \/ Mount \/ Unmount \/ LoadOk \/ LoadFails
    \/ SetPinInput \/ SetApiKeyInput \/ Unlock \/ Lock

SpecAdmin == InitAdmin /\ [][NextAdmin]_vars

\* ---------------------------------------------------------- downloadFile

\* Longest chain of responses a download meets.
MaxHops == 3

\* the status codes of redirects
Redirects == {301, 302, 303, 307, 308}

\* what a hop ends with: a response (a redirect's Location header being an
\* absolute or a relative URL), or an 'error' event of the request
Hops ==
    {[kind |-> "response", status |-> st, location |-> "none"] : st \in {200, 404}}
    \cup {[kind |-> "response", status |-> st, location |-> loc] :
             st \in Redirects, loc \in {"absolute", "relative"}}
    \cup {[kind |-> "error", status |-> 0, location |-> "none"]}

\* the chains of at most n hops: redirects, then something that is no redirect
RECURSIVE Chains(_)
Chains(n) ==
    IF n = 1 THEN {<<h>> : h \in {x \in Hops : x.status \notin Redirects}}
    ELSE Chains(n - 1)
         \cup {<<h>> \o c : h \in {x \in Hops : x.status \in Redirects},
                           c \in {d \in Chains(n - 1) : Len(d) = n - 1}}

dlFrame ==
    UNCHANGED <<variant, pc, rawQuestions, locVars, pipeVars, textVars, adminVars, btnVars,
                scrollVars, handlerVars, activeVars, loadVars, pageVars, dlChain>>

\* fs.createWriteStream(destPath): the stream opens, creating or emptying the file
DlOpen ==
    /\ pc = "downloadFile" /\ dlStream = "new"
    /\ dlStream' = "open"
    /\ dlFile' = [exists |-> TRUE, data |-> <<>>]
    /\ dlFrame /\ UNCHANGED <<dlHop, dlUnlink, dlResult>>

\* a queued fs.unlink(destPath) runs: the name is gone; a stream that had
\* opened it keeps writing to a file no name leads to
DlUnlink ==
    /\ pc = "downloadFile" /\ dlUnlink
    /\ dlUnlink' = FALSE
    /\ dlFile' = [exists |-> FALSE, data |-> <<>>]
    /\ dlStream' = IF dlStream = "open" THEN "detached" ELSE dlStream
    /\ dlFrame /\ UNCHANGED <<dlHop, dlResult>>

\* the request of the current hop emits 'error': unlink, reject
DlError ==
    /\ pc = "downloadFile" /\ dlResult = "pending"
    /\ dlStream \in {"open", "detached"} /\ ~dlUnlink
    /\ dlChain[dlHop].kind = "error"
    /\ dlUnlink' = TRUE
    /\ dlResult' = "rejected"
    /\ dlFrame /\ UNCHANGED <<dlHop, dlFile, dlStream>>

\* the response of the current hop arrives: on 301 and 302 the stream is
\* closed, the unlink queued and downloadFile called with the Location header
\* (http.get throws on a relative one, which rejects); any other response is
\* piped to the stream and the promise resolves when the stream has finished
DlResponse ==
    /\ pc = "downloadFile" /\ dlResult = "pending"
    /\ dlStream \in {"open", "detached"} /\ ~dlUnlink
    /\ dlChain[dlHop].kind = "response"
    /\ IF dlChain[dlHop].status \in {301, 302}
       THEN /\ dlUnlink' = TRUE
            /\ dlStream' = "new"
            /\ dlFile' = dlFile
            /\ IF dlChain[dlHop].location = "absolute"
               THEN dlHop' = dlHop + 1 /\ dlResult' = dlResult
               ELSE dlHop' = dlHop /\ dlResult' = "rejected"
       ELSE /\ dlFile' = IF dlStream = "open" THEN [exists |-> TRUE, data |-> <<dlHop>>] ELSE dlFile
            /\ dlStream' = "closed"
            /\ dlResult' = "resolved"
            /\ UNCHANGED <<dlHop, dlUnlink>>
    /\ dlFrame

InitDownload ==
    /\ variant = "cli"
    /\ pc = "downloadFile"
    /\ dom = <<>> /\ qi = 1 /\ located = <<>> /\ questionBlocks = <<>>
    /\ rawQuestions = <<>>
    /\ PipeIdle
    /\ TextIdle
    /\ AdminIdle
    /\ BtnIdle
    /\ ScrollIdle
    /\ HandlerIdle
    /\ ActiveIdle
    /\ LoadIdle /\ PageIdle
    /\ dlChain \in Chains(MaxHops)
    /\ dlHop = 1
    /\ dlFile \in {[exists |-> FALSE, data |-> <<>>], [exists |-> TRUE, data |-> <<0>>]}
    /\ dlStream = "new"
    /\ dlUnlink = FALSE
    /\ dlResult = "pending"

NextDownload == DlOpen \/ DlUnlink \/ DlError \/ DlResponse

SpecDownload == InitDownload /\ [][NextDownload]_vars

\* ------------------------------------------------------- locator claims

RECURSIVE AncestorAt(_, _, _)
\* the level-th ancestor of n (level 1 is the parent), 0 when there is none
AncestorAt(nodes, n, level) ==
    IF n = 0 THEN 0
    ELSE IF level = 0 THEN n
    ELSE AncestorAt(nodes, nodes[n].parent, level - 1)

MarkerCount(nodes, a, m) ==
    Cardinality({b \in 1..Len(nodes) :
        nodes[b].tag = "button" /\ Contains(nodes, a, b) /\ StartsWith(Trim(nodes[b].text), m)})

FourMarkersOneFirst(nodes, a) ==
    /\ \A m \in {"ka", "kha", "ga", "gha"} : MarkerCount(nodes, a, m) >= 1
    /\ MarkerCount(nodes, a, "ka") = 1

\* a holds exactly four option buttons, one per marker
HoldsOneGroup(nodes, a) ==
    /\ \A m \in {"ka", "kha", "ga", "gha"} : MarkerCount(nodes, a, m) = 1
    /\ Cardinality(Buttons(nodes, a)) = 4

FirstOptionOf(nodes, a) ==
    CHOOSE b \in Buttons(nodes, a) : StartsWith(Trim(nodes[b].text), "ka")

\* the records pushed for the first-option button inside a
RecordsFor(a) == {k \in 1..Len(located) : Contains(dom, a, located[k].ka)}

\* C1 (as claimed): a first-option button none of whose at most 10 examined
\* ancestors holds all four markers with a single first-option marker gets no
\* record: every pushed record comes from a button with such an ancestor.
C1_DiscardedWhenNoAncestorQualifies ==
    \A k \in 1..Len(located) :
        \E level \in 1..MaxWalk :
            /\ AncestorAt(dom, located[k].ka, level) # 0
            /\ FourMarkersOneFirst(dom, AncestorAt(dom, located[k].ka, level))

GroupInReach(nodes, a) ==
    /\ Len(Trim(nodes[FirstOptionOf(nodes, a)].text)) > 1
    /\ \E level \in 1..MaxWalk :
          /\ AncestorAt(nodes, FirstOptionOf(nodes, a), level) # 0
          /\ Buttons(nodes, AncestorAt(nodes, FirstOptionOf(nodes, a), level)) = Buttons(nodes, a)

EachMarkerOnce(nodes, a) ==
    \A m \in {"ka", "kha", "ga", "gha"} : MarkerCount(nodes, a, m) = 1

\* C17: the grid of every located record holds each of the four markers
\* exactly once among its descendant buttons, and is the nearest of the at most
\* 10 ancestors of the record's first-option button that does.
C17_GridHoldsEachMarkerOnce ==
    \A k \in 1..Len(located) :
        /\ EachMarkerOnce(dom, located[k].grid)
        /\ \E level \in 1..MaxWalk :
              /\ AncestorAt(dom, located[k].ka, level) = located[k].grid
              /\ \A l \in 1..(level - 1) : ~EachMarkerOnce(dom, AncestorAt(dom, located[k].ka, l))

\* C18: no two located records have the same options grid or the same
\* question container.
C18_NoBlockTwice ==
    \A k, l \in 1..Len(located) :
        k # l => /\ located[k].grid # located[l].grid
                 /\ located[k].container # located[l].container

\* ---------------------------------------- reconciliation and asset claims

Emitted == (variant = "inject" /\ pc = "probe") \/ (variant = "cli" /\ pc = "done" /\ Len(rawQuestions) > 0)

\* the answer the answer-key entry paired with record i declares, Undefined when
\* the fetch failed, the list is no array or too short, or the entry has no q
DeclaredAnswer(i) ==
    IF apiState = "ok" /\ apiQuestions.kind = "array" /\ i <= Len(apiQuestions.items)
       /\ apiQuestions.items[i].hasQ
    THEN apiQuestions.items[i].answer
    ELSE Undefined

LetterLowered ==
    [A |-> "a", B |-> "b", C |-> "c", D |-> "d", E |-> "e",
     a |-> "a", b |-> "b", c |-> "c", d |-> "d", e |-> "e"]

\* C3: in every emitted record of the injector, correctAnswer is the paired
\* API answer letter in lowercase when the API declares one, even when the
\* DOM letter differs; without a declared answer it is the DOM letter, and
\* null when there is none.
C3_ApiAnswerWins ==
    (variant = "inject" /\ pc = "probe") =>
        /\ Len(jsonOut) = Len(domQuestions)
        /\ \A i \in 1..Len(jsonOut) :
              /\ DeclaredAnswer(i) \in DOMAIN LetterLowered =>
                    jsonOut[i].correctAnswer = LetterLowered[DeclaredAnswer(i)]
              /\ DeclaredAnswer(i) \in {Undefined, ""} =>
                    jsonOut[i].correctAnswer = domQuestions[i].correctAnswer

\* C3 witness: records are emitted, one with DOM letter b and API answer D,
\* one with no DOM letter and no API entry.
C3_Witness ==
    /\ variant = "inject" /\ pc = "probe" /\ Len(jsonOut) = 2
    /\ domQuestions[1].correctAnswer = "b" /\ DeclaredAnswer(1) = "D"
    /\ jsonOut[1].correctAnswer = "d"
    /\ domQuestions[2].correctAnswer = Null /\ DeclaredAnswer(2) = Undefined
    /\ jsonOut[2].correctAnswer = Null

\* C4 (as claimed): in every emitted record correctAnswer is a, b, c, d or null.
C4_CorrectAnswerIsKeyOrNull ==
    Emitted => \A i \in 1..Len(jsonOut) : jsonOut[i].correctAnswer \in {"a", "b", "c", "d", Null}

\* C5 (as claimed): whatever the answer-key body, the run does not throw,
\* and it emits one record per located block.
C5_NoThrowOnAnyBody ==
    /\ pc # "thrown"
    /\ (variant = "inject" /\ pc = "probe") => Len(jsonOut) = Len(domQuestions)

RecordFields ==
    {"id", "subject", "question", "options", "correctAnswer", "explanation", "hasDiagram",
     "image", "originalImageUrl", "svg_code", "topic"}

\* C6: when the answer-key fetch fails the warning is logged, the run goes on
\* to emission, and the emitted records are as many as the extracted ones,
\* each with the DOM-derived correctAnswer and explanation; the records have
\* the same fields whether the fetch failed or not.
C6_FetchFailureKeepsDomData ==
    /\ apiState = "failed" =>
          /\ \E k \in 1..Len(log) : log[k] = "WARN-API"
          /\ pc \in {"download", "downloading", "probe"}
          /\ pc # "probe" => ENABLED Next
          /\ pc = "probe" =>
                /\ Len(jsonOut) = Len(domQuestions)
                /\ \A i \in 1..Len(jsonOut) :
                      /\ jsonOut[i].correctAnswer = domQuestions[i].correctAnswer
                      /\ jsonOut[i].explanation = domQuestions[i].explanation
    /\ (variant = "inject" /\ pc = "probe") =>
          \A i \in 1..Len(jsonOut) : DOMAIN jsonOut[i] = RecordFields

\* C6 witness: a run whose fetch failed has emitted two records, one of
\* them with a DOM letter and a DOM explanation.
C6_Witness ==
    /\ apiState = "failed" /\ pc = "probe" /\ Len(jsonOut) = 2
    /\ \E i \in 1..2 : jsonOut[i].correctAnswer = "b" /\ jsonOut[i].explanation # <<>>

IsPrefix(p, f) == Len(p) <= Len(f) /\ SubSeq(f, 1, Len(p)) = p

\* the local path generated for image j of question i
PathsOf(i, j) == {<<"/images/">> \o n[3] : n \in {m \in named : m[1] = i /\ m[2] = j}}

\* the local paths an emitted record carries: its image field (injector), the
\* [IMAGE:path] reference at the head of its question (cli)
PathsHeld(r) ==
    IF variant = "inject" THEN {r.image} \ {NullText}
    ELSE {<<"/images/">> \o n[3] : n \in {m \in named :
              IsPrefix(<<"[IMAGE:">> \o <<"/images/">> \o m[3] \o <<"] ">>, r.question)}}

\* C7 (as claimed): the record holds an image's path while its download is
\* in flight, and every emitted record holds the path of each of its image
\* URLs, whether the downloads succeeded or not.
C7_EveryPathKept ==
    /\ (variant = "inject" /\ pc = "downloading") =>
          PathsOf(di, dj) = {rawQuestions[di].localImage}
    /\ Emitted =>
          \A i \in 1..Len(jsonOut) : \A j \in 1..Len(rawQuestions[i].imageUrls) :
              PathsOf(i, j) # {} /\ PathsOf(i, j) \subseteq PathsHeld(jsonOut[i])

Digit == <<"1", "2", "3", "4", "5", "6", "7", "8", "9">>

NamesDistinct(S) == \A m, n \in S : (m[1] # n[1] \/ m[2] # n[2]) => m[3] # n[3]

\* C8 (as claimed): the name generated for image j of question i is
\* q{i}_img{j}.{ext}, and two different positions never get the same name.
C8_NamePatternAndDistinct ==
    /\ \A n \in named : IsPrefix(<<"q", Digit[n[1]], "_img", Digit[n[2]], ".">>, n[3])
                        /\ Len(n[3]) > 5
    /\ NamesDistinct(named)

CountOf(q, x) == Cardinality({k \in 1..Len(q) : q[k] = x})

\* C8 (amended): in the injector the name generated for image j of question
\* i is q{i}_img{j}.{ext}, two different positions never get the same name,
\* and every successful download adds its own entry to the asset bundle; in
\* the cli the name is {outputName}_q{i}_{n}{ext}, n being a counter that
\* advances only after a successful download, and no two written files have
\* the same name.
C8_NamesPerVariant ==
    /\ variant = "inject" =>
          /\ \A n \in named : IsPrefix(<<"q", Digit[n[1]], "_img", Digit[n[2]], ".">>, n[3])
                              /\ Len(n[3]) > 5
          /\ NamesDistinct(named)
          /\ DOMAIN images \subseteq {n[3] : n \in named}
          /\ Cardinality(DOMAIN images) = CountOf(log, "IMG")
    /\ variant = "cli" =>
          /\ \A n \in named : \E c \in 1..Len(Digit) :
                IsPrefix(<<"out", "_q", Digit[n[1]], "_", Digit[c], ".">>, n[3]) /\ Len(n[3]) > 6
          /\ \A k, l \in 1..Len(downloadedImages) :
                k # l => downloadedImages[k] # downloadedImages[l]
          /\ imageCounter = Len(downloadedImages) + 1

\* C8 witness: the injector has named images of two questions, two of them
\* of the same question, and the bundle holds two entries.
C8_Witness ==
    /\ variant = "inject"
    /\ \E m, n, o \in named : m[1] = 1 /\ n[1] = 2 /\ o[1] = 2 /\ n[2] = 1 /\ o[2] = 2
    /\ Cardinality(DOMAIN images) >= 2

\* ---------------------------------------------------------- emitter claims

\* C9: a run that ends has either saved (the POST's response had success
\* true) and triggered no download, or not saved and triggered the download;
\* the completion line is logged once, last; and until then the run can
\* always go on.
C9_SavedOrDownloaded ==
    /\ pc = "done" =>
          /\ \/ (postResult \in {"success", "success-images"} /\ saved /\ ~downloaded)
             \/ (postResult \in {"rejected", "not-json", "null", "error"} /\ ~saved /\ downloaded)
          /\ log[Len(log)] = "DONE"
          /\ CountOf(log, "DONE") = 1
          /\ downloaded <=> CountOf(log, "DOWN") = 1
    /\ pc # "done" => (~saved /\ ~downloaded /\ CountOf(log, "DONE") = 0 /\ ENABLED NextSave)

\* C9 witness: a run ended by the fallback after a response without success.
C9_Witness ==
    pc = "done" /\ postResult = "error" /\ downloaded /\ Len(probes) = 2

PortOrder == <<3000, 51007, 5173, 4173>>

Qualifying == {k \in 1..Len(probes) : ~probes[k].threw /\ probes[k].status < 500}

\* C10: findLocalPort probes the ports in the order 3000, 51007, 5173, 4173,
\* returns the first whose probe resolved with a status below 500 and probes
\* none after it; when none qualifies, all four were probed and it returns 3000.
C10_FirstAnsweringPort ==
    /\ Len(probes) <= 4
    /\ \A k \in 1..Len(probes) : probes[k].port = PortOrder[k]
    /\ \A k \in Qualifying : k = Len(probes)
    /\ pc = "probe" => Qualifying = {} /\ port = 0
    /\ pc \in {"post", "done"} =>
          IF Qualifying = {} THEN port = 3000 /\ Len(probes) = 4
          ELSE port = PortOrder[Len(probes)]

\* C10 witness: the third port was returned after a throw and a status 500.
C10_Witness ==
    /\ pc = "post" /\ port = 5173 /\ Len(probes) = 3
    /\ probes[1].threw /\ probes[2].status >= 500 /\ ~probes[2].threw

\* ------------------------------------------------ emitted record claims

\* C11: the emitted list has one record per located first-option button, in
\* the document order of those buttons; the record at position k has id k
\* and the options extracted for the k-th located button.
C11_IdsFollowDocumentOrder ==
    Emitted =>
        /\ Len(jsonOut) = Len(located)
        /\ \A k \in 1..Len(jsonOut) :
              /\ jsonOut[k].id = k
              /\ jsonOut[k].options = OptionsIn(dom, located[k].grid)
              /\ k > 1 => located[k - 1].ka < located[k].ka

\* C11 witness: the injector has emitted a record for a first-option button
\* that follows one it skipped.
C11_Witness ==
    /\ variant = "inject" /\ pc = "probe"
    /\ Len(jsonOut) = 1 /\ jsonOut[1].id = 1
    /\ \E b \in AllButtons(dom) : StartsWith(innerText(dom, b), "ka") /\ b < located[1].ka

\* the record carries a local image path: its image field (injector), the
\* [IMAGE:path] reference at the head of its question (cli)
CarriesPath(r) ==
    IF variant = "inject" THEN r.image # NullText
    ELSE Len(r.question) > 0 /\ r.question[1] = "[IMAGE:"

\* C12 (as claimed): in every emitted record hasDiagram is true exactly when
\* the record carries a local image path or a non-empty svg_code.
C12_HasDiagramIffCarried ==
    Emitted =>
        \A i \in 1..Len(jsonOut) :
            jsonOut[i].hasDiagram <=> (CarriesPath(jsonOut[i]) \/ jsonOut[i].svg_code # <<>>)

\* C13 (as claimed): the normalization applied to its own result returns
\* that result unchanged.
C13_NormalizeIdempotent ==
    \A k \in 2..Len(passes) : passes[k] = passes[k - 1]

\* ------------------------------------------------- question text claims

\* p occurs in s
IsSubstring(p, s) == \E k \in 0..(Len(s) - Len(p)) : SubSeq(s, k + 1, k + Len(p)) = p

\* the question text of the k-th extracted record
QuestionOf(k) ==
    IF variant = "inject" THEN rawQuestions[k].question ELSE rawQuestions[k].questionText

\* the texts of the explanation boxes inside the k-th record's container
ExplanationsOf(k) ==
    {Trim(dom[n].text) : n \in {m \in 1..Len(dom) :
        /\ Contains(dom, located[k].container, m)
        /\ dom[m].tag = "div" /\ ClassHasGreen(dom[m].cls)}}

\* C14 (as claimed): the question text of every extracted record contains
\* none of the record's option texts and none of the text of an explanation
\* box of its container.
C14_QuestionTextClean ==
    \A k \in 1..Len(rawQuestions) :
        /\ \A key \in DOMAIN rawQuestions[k].options :
              rawQuestions[k].options[key] # <<>> =>
                  ~IsSubstring(rawQuestions[k].options[key], QuestionOf(k))
        /\ \A e \in ExplanationsOf(k) : e # <<>> => ~IsSubstring(e, QuestionOf(k))

\* ------------------------------------------------------ network claims

\* the place of a request in the order of a run
Rank(r) ==
    CASE r.kind = "api"   -> <<1, 0, 0>>
      [] r.kind = "image" -> <<2, r.i, r.j>>
      [] r.kind = "probe" -> <<3, r.i, 0>>
      [] OTHER            -> <<4, 0, 0>>

Before(a, b) ==
    \/ a[1] < b[1]
    \/ a[1] = b[1] /\ a[2] < b[2]
    \/ a[1] = b[1] /\ a[2] = b[2] /\ a[3] < b[3]

\* the requests issued so far, in the order of their issue
IssuedOf(q) == SelectSeq(q, LAMBDA e : e.ev = "issue")

\* the image positions of the records
ImagePositions ==
    UNION {{<<i, j>> : j \in 1..Len(rawQuestions[i].imageUrls)} : i \in 1..Len(rawQuestions)}

\* C15: every request is issued when no other is in flight (the history
\* alternates issue and settle of the same request); requests are issued in
\* the order answer-key fetch, image downloads by (question, image), port
\* probes, POST; the injector fetches the answer key first, and once the
\* download loop is over every image position was requested.
C15_OneRequestAtATime ==
    /\ \A k \in 1..Len(requests) :
          IF k % 2 = 1 THEN requests[k].ev = "issue"
          ELSE requests[k].ev = "settle" /\ requests[k].req = requests[k - 1].req
    /\ \A k \in 2..Len(IssuedOf(requests)) :
          Before(Rank(IssuedOf(requests)[k - 1].req), Rank(IssuedOf(requests)[k].req))
    /\ (variant = "inject" /\ requests # <<>>) => requests[1].req.kind = "api"
    /\ pc \in {"probe", "post", "done"} /\ jsonOut # <<>> =>
          {<<e.req.i, e.req.j>> : e \in {requests[k] : k \in {n \in 1..Len(requests) :
                requests[n].req.kind = "image"}}} = ImagePositions
    /\ pc = "done" /\ variant = "inject" => requests[Len(requests)] = Settled(Req("post", 0, 0))

\* C15 witness: an injector run is over after the answer-key fetch, four
\* image downloads of which one failed, two probes and the POST.
C15_Witness ==
    /\ variant = "inject" /\ pc = "done"
    /\ Len(IssuedOf(requests)) = 8
    /\ \E k \in 1..Len(log) : log[k] = "WARN-IMG"
    /\ Len(probes) = 2

\* ----------------------------------------------------- admin page claims

\* what holds of the page in every state when a PIN is configured
PinGate ==
    TEACHER_PIN # "" =>
        /\ View = "dashboard" => pinUnlocked
        /\ pressed = "mount" => (pinUnlocked <=> sessionUnlock = "1")
        /\ (pressed = "unlock" /\ pinInput # TEACHER_PIN) => (~pinUnlocked /\ View = "lock")
        /\ (pressed = "unlock" /\ pinInput = TEACHER_PIN) => (pinUnlocked /\ sessionUnlock = "1")
        /\ pressed = "lock" => (~pinUnlocked /\ sessionUnlock = Null /\ View = "lock")

\* how a locked page becomes unlocked when a PIN is configured
PinGateStep ==
    (TEACHER_PIN # "" /\ ~pinUnlocked /\ pinUnlocked') =>
        \/ pressed' = "unlock" /\ mounted /\ pinInput = TEACHER_PIN
        \/ pressed' = "mount" /\ sessionUnlock = "1"

\* C16: with a configured PIN the dashboard is rendered only while the page is
\* unlocked; the page becomes unlocked only by Unlock with the entered PIN
\* equal to the configured one or by the session flag present when it loads;
\* Unlock with another PIN leaves it locked; Lock locks it and removes the
\* session flag.
C16_PinGate == []PinGate /\ [][PinGateStep]_vars

\* C16 witness: with PIN "12" configured and no session flag, Unlock was
\* pressed with "12" entered and the dashboard is shown.
C16_Witness ==
    /\ TEACHER_PIN = "12" /\ pressed = "unlock" /\ pinInput = "12"
    /\ View = "dashboard" /\ sessionUnlock = "1"
    /\ apiKeyInput = <<" ", "k">>

\* ------------------------------------------------- reconciliation claims

\* the injector has built its records
Built == variant = "inject" /\ pc = "probe"

\* record i has an answer-key entry at its own index, and the entry has a q
Paired(i) ==
    /\ apiState = "ok" /\ apiQuestions.kind = "array"
    /\ i <= Len(apiQuestions.items)
    /\ apiQuestions.items[i].hasQ

ElementsOf(q) == {q[k] : k \in 1..Len(q)}

C20_ExplanationFallback ==
    Built =>
        \A i \in 1..Len(jsonOut) :
            IF domQuestions[i].explanation # <<>>
            THEN jsonOut[i].explanation = domQuestions[i].explanation
            ELSE IF Paired(i) /\ apiQuestions.items[i].ai.kind \in {"string", "object"}
            THEN jsonOut[i].explanation = apiQuestions.items[i].ai.text
            ELSE jsonOut[i].explanation = <<>>

\* C20 witness: the first record kept its DOM explanation although its entry
\* has a string explanation, the second took the explanation of the object of
\* its entry.
C20_Witness ==
    /\ Built /\ Len(jsonOut) = 2 /\ Paired(1) /\ Paired(2)
    /\ domQuestions[1].explanation = <<"e">> /\ apiQuestions.items[1].ai = [kind |-> "string", text |-> <<"s">>]
    /\ jsonOut[1].explanation = <<"e">>
    /\ domQuestions[2].explanation = <<>> /\ apiQuestions.items[2].ai = [kind |-> "object", text |-> <<"o">>]
    /\ jsonOut[2].explanation = <<"o">>

\* C21: after the reconciliation the image URLs of a paired record start with
\* its DOM image URLs in their order, hold nothing but these and the URLs
\* matched in its answer-key entry, and hold every matched URL as often as the
\* DOM list held it, or once when the DOM list did not hold it.
C21_UrlsAppendedOnce ==
    apiState = "ok" =>
        \A i \in 1..Len(rawQuestions) :
            Paired(i) =>
                LET old     == domQuestions[i].imageUrls
                    new     == rawQuestions[i].imageUrls
                    matches == apiQuestions.items[i].urls
                IN  /\ Len(new) >= Len(old) /\ SubSeq(new, 1, Len(old)) = old
                    /\ ElementsOf(new) = ElementsOf(old) \cup ElementsOf(matches)
                    /\ \A u \in ElementsOf(matches) :
                          CountOf(new, u) = IF u \in ElementsOf(old) THEN CountOf(old, u) ELSE 1

\* C21 witness: one record got a URL its entry matched twice appended once
\* behind its two DOM URLs, another did not get the URL it already held.
C21_Witness ==
    /\ apiState = "ok" /\ Len(rawQuestions) = 2 /\ Paired(1) /\ Paired(2)
    /\ \E i, j \in 1..2 :
          /\ apiQuestions.items[i].urls = <<UrlD, UrlD>>
          /\ Len(domQuestions[i].imageUrls) = 2
          /\ rawQuestions[i].imageUrls = domQuestions[i].imageUrls \o <<UrlD>>
          /\ apiQuestions.items[j].urls = <<UrlA>>
          /\ domQuestions[j].imageUrls = <<UrlA>>
          /\ rawQuestions[j].imageUrls = <<UrlA>>

\* ---------------------------------------------------- download claims

\* the image downloads that have settled so far
SettledImages == Cardinality({k \in 1..Len(requests) :
                     requests[k].ev = "settle" /\ requests[k].req.kind = "image"})

\* the image downloads that succeeded so far
SucceededImages ==
    IF variant = "inject" THEN Cardinality(DOMAIN images) ELSE Len(downloadedImages)

\* the download loop is over and the records are emitted
Emission == (variant = "inject" /\ pc = "probe") \/ (variant = "cli" /\ pc = "done")

\* C22: a failed image download never stops the run (it neither stalls nor
\* ends the process); every failed download has its warning in the log; and
\* at emission every image position has been requested and there are as many
\* records as were extracted, whatever downloads failed.
C22_DownloadFailureIsSurvived ==
    /\ pc \notin {"stalled", "crashed"}
    /\ CountOf(log, "WARN-IMG") = SettledImages - SucceededImages
    /\ Emission =>
          /\ Len(jsonOut) = Len(rawQuestions)
          /\ {<<requests[k].req.i, requests[k].req.j>> : k \in {n \in 1..Len(requests) :
                requests[n].req.kind = "image"}} = ImagePositions

\* the chain is made of redirects with absolute Location headers and ends with
\* a response that is no redirect
RedirectsThenResponse ==
    /\ dlChain # <<>>
    /\ \A k \in 1..Len(dlChain) :
          /\ dlChain[k].kind = "response"
          /\ dlChain[k].status \in Redirects => dlChain[k].location = "absolute"

\* C23: over a chain of redirects ending with a response that is no redirect
\* the promise is never rejected, and once it has resolved and nothing is
\* queued any more, destPath holds the body of the last response of the chain.
C23_RedirectsFollowed ==
    RedirectsThenResponse =>
        /\ dlResult # "rejected"
        /\ (dlResult = "resolved" /\ ~dlUnlink) =>
              dlFile = [exists |-> TRUE, data |-> <<Len(dlChain)>>]

\* ------------------------------------------------------- button claims

\* C24: runScrape is called at most once; it is called only while no run was
\* started before; and from its call on the button is disabled, during the
\* run and after it.
C24_AtMostOneRun ==
    /\ [](runs <= 1 /\ (runs = 1 => goDisabled) /\ (runs = 0 => pc = "ready"))
    /\ [][runs' # runs => (runs = 0 /\ runs' = 1)]_vars

\* C24 witness: the run has built its records, and the button was clicked
\* again while it was running or afterwards, to no effect.
C24_Witness ==
    /\ variant = "inject" /\ pc = "probe" /\ Len(jsonOut) > 0
    /\ runs = 1 /\ clicks = MaxClicks /\ goDisabled

\* ------------------------------------------------------- scroll claims

\* C25: the scroll comes to its end and extraction starts, in both variants,
\* whatever the page does to its height meanwhile; the injector's loop has at
\* most as many steps left as the height read before the loop gave it.
C25_ScrollTerminates ==
    /\ <>(pc = "scrolled")
    /\ [](stepsLeft <= MaxHeight)

\* ------------------------------------------------------ handler claims

\* C26: every file the handler has written is a questions file directly in
\* public/ or an image file directly in public/images/.
C26_WritesStayInside ==
    \A w \in written :
        /\ Len(w.path) = (IF w.kind = "json" THEN 2 ELSE 3)
        /\ SubSeq(w.path, 1, Len(w.path) - 1) = (IF w.kind = "json" THEN publicDir ELSE imagesDir)
        /\ w.path[Len(w.path)] \notin {<<>>, <<".">>, <<".", ".">>}

\* C26 witness: the handler answered 200 to a request whose image key is
\* '../', having written that image and the questions file.
C26_Witness ==
    /\ pc = "responded" /\ status = 200
    /\ Len(req.body.images) = 1
    /\ req.body.images[1].key = <<".", ".", "/">>
    /\ Cardinality(written) = 2

\* --------------------------------------------- active question file claims

\* C27: a call of getActiveQuestionFile resolves, to an object; and when an
\* override was stored at the call it returns that override with the source
\* 'local-override' and has not asked the server.
C27_GetNeverRejects ==
    lastCall.fn = "get" =>
        /\ lastCall.settled = "resolved"
        /\ lastCall.value.kind = "object"
        /\ lastCall.before # Null =>
              /\ ~lastCall.fetched
              /\ lastCall.value.activeFile = lastCall.before
              /\ lastCall.value.source = "local-override"

\* C28: a call of setActiveQuestionFile made elsewhere than on localhost whose
\* request fails (the fetch rejects, or the status is not OK) rejects and
\* leaves the stored override as it was; a call made on localhost, or one the
\* server answers OK, resolves and leaves the file name as the stored override.
C28_SetStoresOrRejects ==
    lastCall.fn = "set" =>
        IF ~isLocalhost /\ lastCall.value \in {"network-error", "not-ok"}
        THEN lastCall.settled = "rejected" /\ localOverride = lastCall.before
        ELSE lastCall.settled = "resolved" /\ localOverride = lastCall.arg

\* ---------------------------------------------------- admin data claims

\* C29: once every loadData call has settled and the one started last has
\* succeeded, the page shows the data that call returned.
C29_LastStartedCallWins ==
    (/\ calls # <<>>
     /\ \A k \in 1..Len(calls) : calls[k].state = "settled"
     /\ calls[Len(calls)].ok)
        => submissions = calls[Len(calls)].data

====
